---- MODULE Spec2Model ----
(***************************************************************************)
(* A model of framework/scripts/verify_sources.py: the source verification *)
(* pipeline (rate-limited fetcher, reachability and relevance passes,      *)
(* result store, redirect repair, manual fix applier).                     *)
(*                                                                         *)
(* Strings are sequences of tokens.  A URL is a sequence whose first token *)
(* is the scheme-and-host part when it has one, followed by path tokens,   *)
(* and "#" is the one-character token that str.split('#') splits on.       *)
(***************************************************************************)
EXTENDS Integers, Sequences, FiniteSets, TLC

(***************************************************************************)
(* Bounds of the model.                                                    *)
(***************************************************************************)
\* clock ticks per time unit (the resolution of time.time() in the model)
TicksPerUnit == 2
\* how many ticks the clock advances after the first call
ClockSpan == 5
\* concurrent callers of fetch_url
NumCallers == 2
\* fetches recorded in one behaviour of the rate limiter
MaxFetches == 3
\* invocations of main in one behaviour of the maintenance workflow
MaxInvocations == 3
\* parser events in one body given to the extractor on its own
MaxEvents == 4

(***************************************************************************)
(* Python values.                                                          *)
(***************************************************************************)
\* Python's None, where the code holds an Optional[str]
None == <<"<None>">>

\* the truth value of an Optional[str]: None and '' are false
Truthy(s) == s /= None /\ s /= <<>>

\* dict.get(key, default)
DictGet(d, k, default) == IF k \in DOMAIN d THEN d[k] ELSE default

\* d[k] = v
DictPut(d, k, v) == [x \in DOMAIN d \cup {k} |-> IF x = k THEN v ELSE d[x]]

\* the host tokens of the model's URLs
Hosts == {"x", "y"}

\* urlparse(url).netloc: empty when the URL has no scheme-and-host part
get_domain(url) ==
    IF url /= <<>> /\ url[1] \in Hosts THEN url[1] ELSE ""

(***************************************************************************)
(* Strings: sequences of one-character tokens.                             *)
(***************************************************************************)
\* the upper-case characters of the model and their lower-case forms
UpperToLower == [A |-> "a", B |-> "b", S |-> "s", T |-> "t"]

\* str.lower() of one character
LowerChar(c) == IF c \in DOMAIN UpperToLower THEN UpperToLower[c] ELSE c

\* str.lower()
Lower(s) == [i \in 1 .. Len(s) |-> LowerChar(s[i])]

\* the characters str.split() splits on
Whitespace == {" ", "\n"}

\* the index of the first character of s that is in set cs, 0 when none is
FirstIn(s, cs) ==
    IF \E i \in 1 .. Len(s) : s[i] \in cs
    THEN CHOOSE i \in 1 .. Len(s) : s[i] \in cs /\ \A k \in 1 .. (i - 1) : s[k] \notin cs
    ELSE 0

RECURSIVE SplitOn(_, _)
\* str.split(sep) for a one-character sep: every segment, empty ones included
SplitOn(s, sep) ==
    IF FirstIn(s, {sep}) = 0
    THEN <<s>>
    ELSE <<SubSeq(s, 1, FirstIn(s, {sep}) - 1)>>
             \o SplitOn(SubSeq(s, FirstIn(s, {sep}) + 1, Len(s)), sep)

RECURSIVE SplitWs(_)
\* str.split(): split on runs of whitespace, no empty segment
SplitWs(s) ==
    IF s = <<>> THEN <<>>
    ELSE IF s[1] \in Whitespace THEN SplitWs(Tail(s))
    ELSE IF FirstIn(s, Whitespace) = 0 THEN <<s>>
    ELSE <<SubSeq(s, 1, FirstIn(s, Whitespace) - 1)>>
             \o SplitWs(SubSeq(s, FirstIn(s, Whitespace), Len(s)))

RECURSIVE Join(_, _)
\* sep.join(parts)
Join(parts, sep) ==
    IF parts = <<>> THEN <<>>
    ELSE IF Len(parts) = 1 THEN parts[1]
    ELSE parts[1] \o sep \o Join(Tail(parts), sep)

\* a in b, for strings
IsSubstring(a, b) ==
    \E i \in 0 .. (Len(b) - Len(a)) : SubSeq(b, i + 1, i + Len(a)) = a

\* s[:n]
Take(s, n) == SubSeq(s, 1, IF Len(s) < n THEN Len(s) ELSE n)

\* str.replace(old, new) for one-character old and new
ReplaceChar(s, old, new) == [i \in 1 .. Len(s) |-> IF s[i] = old THEN new ELSE s[i]]

\* '#' in url
HasHash(url) == \E i \in 1 .. Len(url) : url[i] = "#"

\* url.split('#')[0]
BaseUrl(url) == SplitOn(url, "#")[1]

\* url.split('#')[1] if '#' in url else None
Fragment(url) == IF HasHash(url) THEN SplitOn(url, "#")[2] ELSE None

(***************************************************************************)
(* The fetcher (fetch_url).  A response is what the network answers to one *)
(* request: "ok" (urlopen returns, after following redirects), "http_error"*)
(* (urllib.error.HTTPError) or "url_error" (URLError or another exception  *)
(* raised inside the try block).                                           *)
(***************************************************************************)
\* urllib.request.Request(url, method=method) raises ValueError("unknown url
\* type") for a URL without a scheme; the call stands before the try block
FetchRaises(url) == IF url = <<>> THEN TRUE ELSE url[1] \notin Hosts

\* the dict fetch_url returns for a request that Request() accepts
fetch_url(url, method, resp) ==
    IF resp.kind = "ok"
    THEN [status |-> resp.status,
          url |-> resp.final,
          redirected |-> resp.final /= url,
          body |-> IF method = "GET" THEN resp.body ELSE <<>>,
          error |-> None]
    ELSE IF resp.kind = "http_error"
    THEN [status |-> resp.status, url |-> url, redirected |-> FALSE,
          body |-> <<>>, error |-> resp.reason]
    ELSE [status |-> 0, url |-> url, redirected |-> FALSE,
          body |-> <<>>, error |-> resp.reason]

(***************************************************************************)
(* The reachability pass (pass1_reachability): the record of one source.   *)
(***************************************************************************)
\* the lower bound taken strictly and the upper bound inclusively
ReachableOffByOne(status) == 200 < status /\ status <= 400

\* 200 <= r['status'] < 400
Reachable(status) == 200 <= status /\ status < 400

\* the record with the URL of the response in redirect_url, redirected or not
ReachabilityRecordAlwaysUrl(src, r) ==
    [capability |-> src.capability,
     url |-> src.url,
     status_code |-> r.status,
     redirected |-> r.redirected,
     redirect_url |-> r.url,
     error |-> r.error,
     reachable |-> Reachable(r.status)]

\* the dict appended to agent_results for source src and fetch result r
ReachabilityRecord(src, r) ==
    [capability |-> src.capability,
     url |-> src.url,
     status_code |-> r.status,
     redirected |-> r.redirected,
     redirect_url |-> IF r.redirected THEN r.url ELSE None,
     error |-> r.error,
     reachable |-> Reachable(r.status)]

(***************************************************************************)
(* The HTML extractor (TextExtractor).  A body is the sequence of events   *)
(* HTMLParser.feed produces for it: "start" (tag, attrs), "end" (tag),     *)
(* "data" (data), "other" (a comment or declaration, which has no handler) *)
(* and "error" (the parser raises; pass2_relevance swallows it).           *)
(***************************************************************************)
SkipTags == {"script", "style", "noscript"}

\* dict(attrs).get(key, ''): the last pair with that key wins
AttrGet(attrs, key) ==
    IF \E i \in 1 .. Len(attrs) : attrs[i][1] = key
    THEN attrs[CHOOSE i \in 1 .. Len(attrs) :
                   attrs[i][1] = key /\ \A k \in (i + 1) .. Len(attrs) : attrs[k][1] /= key][2]
    ELSE <<>>

\* TextExtractor.__init__
NewExtractor == [text_parts |-> <<>>, anchors |-> {}, skip |-> FALSE, raised |-> FALSE]

\* TextExtractor.handle_starttag
handle_starttag(ex, tag, attrs) ==
    [ex EXCEPT
        !.skip = IF tag \in SkipTags THEN TRUE ELSE ex.skip,
        !.anchors = ex.anchors
            \cup (IF Truthy(AttrGet(attrs, "id")) THEN {AttrGet(attrs, "id")} ELSE {})
            \cup (IF Truthy(AttrGet(attrs, "name")) THEN {AttrGet(attrs, "name")} ELSE {})]

\* TextExtractor.handle_endtag
handle_endtag(ex, tag) ==
    [ex EXCEPT !.skip = IF tag \in SkipTags THEN FALSE ELSE ex.skip]

\* TextExtractor.handle_data
handle_data(ex, data) ==
    IF ~ex.skip THEN [ex EXCEPT !.text_parts = Append(ex.text_parts, data)] ELSE ex

\* one parser event dispatched to its handler
HandleEvent(ex, ev) ==
    IF ex.raised THEN ex
    ELSE IF ev.type = "start" THEN handle_starttag(ex, ev.tag, ev.attrs)
    ELSE IF ev.type = "end" THEN handle_endtag(ex, ev.tag)
    ELSE IF ev.type = "data" THEN handle_data(ex, ev.data)
    ELSE IF ev.type = "error" THEN [ex EXCEPT !.raised = TRUE]
    ELSE ex

RECURSIVE FeedFrom(_, _)
\* extractor.feed(body) inside try/except: the events in order, up to the
\* first one on which the parser raises
FeedFrom(ex, body) ==
    IF body = <<>> THEN ex ELSE FeedFrom(HandleEvent(ex, Head(body)), Tail(body))

Feed(body) == FeedFrom(NewExtractor, body)

\* TextExtractor.get_text
get_text(ex) == Join(ex.text_parts, <<" ">>)

\* TextExtractor.get_anchors
get_anchors(ex) == ex.anchors

(***************************************************************************)
(* The relevance pass (pass2_relevance): the page of one fetched base URL  *)
(* and the check of one source against it.                                 *)
(***************************************************************************)
\* the page_cache entry built from the result of GET base_url
PageOf(r) ==
    IF r.body /= <<>>
    THEN [text |-> Lower(get_text(Feed(r.body))),
          anchors |-> get_anchors(Feed(r.body)),
          raw |-> r.body,
          reachable |-> Reachable(r.status)]
    ELSE [text |-> <<>>, anchors |-> {}, raw |-> <<>>, reachable |-> FALSE]

\* [w for w in cap_name_lower.split() if len(w) > 3]
SignificantWords(name_lower) == SelectSeq(SplitWs(name_lower), LAMBDA w : Len(w) > 3)

\* sum(1 for w in words if w in page['text'])
WordsFound(words, text) == Cardinality({i \in 1 .. Len(words) : IsSubstring(words[i], text)})

\* round(word_ratio, 2), in hundredths; word_ratio is 1.0 when there are no words
KeywordRatio(words, text) ==
    IF words = <<>> THEN 100
    ELSE (200 * WordsFound(words, text) + Len(words)) \div (2 * Len(words))

\* word_ratio > 0.5 in place of word_ratio >= 0.5
RatioAboveHalf(words, text) ==
    IF words = <<>> THEN TRUE ELSE 2 * WordsFound(words, text) > Len(words)

\* word_ratio >= 0.5
RatioAtLeastHalf(words, text) ==
    IF words = <<>> THEN TRUE ELSE 2 * WordsFound(words, text) >= Len(words)

\* granularity == 'dedicated'
DedicatedCheck(name, page) ==
    [relevant |-> IsSubstring(Lower(name), page.text)
                    \/ RatioAtLeastHalf(SignificantWords(Lower(name)), page.text),
     checks |-> [name_found |-> IsSubstring(Lower(name), page.text),
                 keyword_ratio |-> KeywordRatio(SignificantWords(Lower(name)), page.text)]]

\* the first anchor format alone
AnchorFoundExact(fragment, anchors) == fragment \in anchors

\* the three anchor formats tried for a fragment
AnchorFound(fragment, anchors) ==
    \/ fragment \in anchors
    \/ Lower(fragment) \in {Lower(a) : a \in anchors}
    \/ ReplaceChar(fragment, "-", "_") \in anchors

\* the section check without the test of the fragment: a URL without one
\* passes on any page that has an anchor
SectionCheckAnyAnchor(fragment, page) ==
    IF Truthy(fragment)
    THEN [relevant |-> AnchorFound(fragment, page.anchors),
          checks |-> [anchor_found |-> AnchorFound(fragment, page.anchors),
                      fragment |-> fragment]]
    ELSE [relevant |-> page.anchors /= {}, checks |-> [no_fragment |-> TRUE]]

\* granularity == 'section'
SectionCheck(fragment, page) ==
    IF Truthy(fragment)
    THEN [relevant |-> AnchorFound(fragment, page.anchors),
          checks |-> [anchor_found |-> AnchorFound(fragment, page.anchors),
                      fragment |-> fragment]]
    ELSE [relevant |-> FALSE, checks |-> [no_fragment |-> TRUE]]

\* no normalisation of whitespace
NormalizeWsNone(s) == s

\* ' '.join(s.split())
NormalizeWs(s) == Join(SplitWs(s), <<" ">>)

\* the length of the excerpt prefix tried when the whole excerpt is not found
PrefixLen == 50

\* the excerpt check with the prefix taken before the excerpt is normalised
ExcerptCheckRawPrefix(excerpt, page) ==
    IF Truthy(excerpt)
    THEN [relevant |-> IsSubstring(NormalizeWs(Lower(excerpt)), NormalizeWs(page.text))
                        \/ IsSubstring(Take(Lower(excerpt), PrefixLen), NormalizeWs(page.text)),
          checks |-> [exact_match |->
                          IsSubstring(NormalizeWs(Lower(excerpt)), NormalizeWs(page.text)),
                      prefix_match |->
                          IsSubstring(Take(Lower(excerpt), PrefixLen), NormalizeWs(page.text))]]
    ELSE [relevant |-> FALSE, checks |-> [no_excerpt |-> TRUE]]

\* the excerpt check with a prefix of one character
ExcerptCheckShortPrefix(excerpt, page) ==
    IF Truthy(excerpt)
    THEN [relevant |-> IsSubstring(NormalizeWs(Lower(excerpt)), NormalizeWs(page.text))
                        \/ IsSubstring(Take(NormalizeWs(Lower(excerpt)), 1),
                                       NormalizeWs(page.text)),
          checks |-> [exact_match |->
                          IsSubstring(NormalizeWs(Lower(excerpt)), NormalizeWs(page.text)),
                      prefix_match |->
                          IsSubstring(Take(NormalizeWs(Lower(excerpt)), 1),
                                      NormalizeWs(page.text))]]
    ELSE [relevant |-> FALSE, checks |-> [no_excerpt |-> TRUE]]

\* granularity == 'excerpt'
ExcerptCheck(excerpt, page) ==
    IF Truthy(excerpt)
    THEN [relevant |-> IsSubstring(NormalizeWs(Lower(excerpt)), NormalizeWs(page.text))
                        \/ IsSubstring(Take(NormalizeWs(Lower(excerpt)), PrefixLen),
                                       NormalizeWs(page.text)),
          checks |-> [exact_match |->
                          IsSubstring(NormalizeWs(Lower(excerpt)), NormalizeWs(page.text)),
                      prefix_match |->
                          IsSubstring(Take(NormalizeWs(Lower(excerpt)), PrefixLen),
                                      NormalizeWs(page.text))]]
    ELSE [relevant |-> FALSE, checks |-> [no_excerpt |-> TRUE]]

\* src.get('excerpt', '')
ExcerptOf(src) == IF src.excerpt = None THEN <<>> ELSE src.excerpt

\* the check by granularity, for a reachable page; any other granularity
\* leaves relevant = False and checks = {}
GranularityCheck(src, page) ==
    IF src.sourceGranularity = "dedicated" THEN DedicatedCheck(src.capability, page)
    ELSE IF src.sourceGranularity = "section" THEN SectionCheck(Fragment(src.url), page)
    ELSE IF src.sourceGranularity = "excerpt" THEN ExcerptCheck(ExcerptOf(src), page)
    ELSE [relevant |-> FALSE, checks |-> <<>>]

\* the check_result appended to agent_results for source src and its page
RelevanceRecord(src, page) ==
    IF ~page.reachable
    THEN [capability |-> src.capability,
          url |-> src.url,
          granularity |-> src.sourceGranularity,
          relevant |-> FALSE,
          checks |-> [page_reachable |-> FALSE]]
    ELSE [capability |-> src.capability,
          url |-> src.url,
          granularity |-> src.sourceGranularity,
          relevant |-> GranularityCheck(src, page).relevant,
          checks |-> GranularityCheck(src, page).checks]

(***************************************************************************)
(* Redirect repair (fix_redirects), for one agent.                         *)
(***************************************************************************)
\* the fragment appended whatever the new URL holds
WithFragmentAlways(new_url, fragment) == new_url \o <<"#">> \o fragment

\* the value stored for a redirected record whose cited URL has a fragment
WithFragment(new_url, fragment) ==
    IF ~HasHash(new_url) THEN new_url \o <<"#">> \o fragment ELSE new_url

\* one record of the persisted results added to redirect_map
AddRedirect(map, r) ==
    IF r.redirected /\ Truthy(r.redirect_url)
    THEN IF Truthy(Fragment(r.url))
         THEN DictPut(map, r.url, WithFragment(r.redirect_url, Fragment(r.url)))
         ELSE DictPut(map, BaseUrl(r.url), r.redirect_url)
    ELSE map

RECURSIVE RedirectMapFrom(_, _)
RedirectMapFrom(map, agent_results) ==
    IF agent_results = <<>> THEN map
    ELSE RedirectMapFrom(AddRedirect(map, Head(agent_results)), Tail(agent_results))

\* redirect_map: old_url -> canonical_url
RedirectMap(agent_results) == RedirectMapFrom(<<>>, agent_results)

\* redirect_map.get(old_url) or redirect_map.get(old_base)
RedirectTarget(map, old_url) ==
    IF Truthy(DictGet(map, old_url, None))
    THEN DictGet(map, old_url, None)
    ELSE DictGet(map, BaseUrl(old_url), None)

\* the test without the comparison: a URL mapped to itself is rewritten too
NeedsRewriteAlways(new_url, old_url) == Truthy(new_url)

\* if new_url and new_url != old_url
NeedsRewrite(new_url, old_url) == Truthy(new_url) /\ new_url /= old_url

RECURSIVE FixRedirectsFrom(_, _, _, _, _, _)
\* the loop over the sources from index i on: the changes collected and the
\* document as mutated in place (left alone under dry_run)
FixRedirectsFrom(data, i, changes, map, dry_run, today) ==
    IF i > Len(data) THEN [changes |-> changes, data |-> data]
    ELSE IF NeedsRewrite(RedirectTarget(map, data[i].url), data[i].url)
    THEN FixRedirectsFrom(
             IF ~dry_run
             THEN [data EXCEPT ![i].url = RedirectTarget(map, data[i].url),
                               ![i].verifiedDate = today]
             ELSE data,
             i + 1,
             Append(changes, [capability |-> data[i].capability,
                              old_url |-> data[i].url,
                              new_url |-> RedirectTarget(map, data[i].url)]),
             map, dry_run, today)
    ELSE FixRedirectsFrom(data, i + 1, changes, map, dry_run, today)

\* a dry run that looks at nothing and reports no change
FixRedirectsAgentSilent(data, agent_results, dry_run, today) ==
    IF dry_run THEN [changes |-> <<>>, data |-> data]
    ELSE FixRedirectsFrom(data, 1, <<>>, RedirectMap(agent_results), dry_run, today)

\* fix_redirects for one agent whose redirect map is not empty: the change
\* list and the document; the file is rewritten only if changes and not dry_run
FixRedirectsAgent(data, agent_results, dry_run, today) ==
    FixRedirectsFrom(data, 1, <<>>, RedirectMap(agent_results), dry_run, today)

(***************************************************************************)
(* The manual fix applier (apply_fixes), for one agent.                    *)
(***************************************************************************)
\* where a fix gives no sourceGranularity: fix.get('sourceGranularity') is None
NoGranularity == "<None>"

\* the fixes file normalised to {old_url: {url, sourceGranularity?}}: a string
\* value becomes {'url': value}, a dict is kept, any other value is dropped
NormaliseFixes(raw_fixes) ==
    [k \in {u \in DOMAIN raw_fixes : raw_fixes[u].kind \in {"str", "dict"}} |->
        IF raw_fixes[k].kind = "str"
        THEN [url |-> raw_fixes[k].url, sourceGranularity |-> NoGranularity]
        ELSE [url |-> raw_fixes[k].url, sourceGranularity |-> raw_fixes[k].sourceGranularity]]

\* the rewrite without the date stamp
FixedSourceNoDate(src, fix, today) ==
    [src EXCEPT
        !.url = fix.url,
        !.sourceGranularity =
            IF fix.sourceGranularity /= NoGranularity THEN fix.sourceGranularity ELSE @,
        !.excerpt =
            IF fix.sourceGranularity \in {"dedicated", "section"} THEN None ELSE @]

\* the rewrite that leaves the excerpt where it is
FixedSourceKeepExcerpt(src, fix, today) ==
    [src EXCEPT
        !.url = fix.url,
        !.verifiedDate = today,
        !.sourceGranularity =
            IF fix.sourceGranularity /= NoGranularity THEN fix.sourceGranularity ELSE @]

\* one source as rewritten by its fix
FixedSource(src, fix, today) ==
    [src EXCEPT
        !.url = fix.url,
        !.verifiedDate = today,
        !.sourceGranularity =
            IF fix.sourceGranularity /= NoGranularity THEN fix.sourceGranularity ELSE @,
        !.excerpt =
            IF fix.sourceGranularity \in {"dedicated", "section"} THEN None ELSE @]

RECURSIVE ApplyFixesFrom(_, _, _, _, _, _)
\* the loop over the sources from index i on
ApplyFixesFrom(data, i, changes, fixes, dry_run, today) ==
    IF i > Len(data) THEN [changes |-> changes, data |-> data]
    ELSE IF data[i].url \in DOMAIN fixes
    THEN ApplyFixesFrom(
             IF ~dry_run
             THEN [data EXCEPT ![i] = FixedSource(data[i], fixes[data[i].url], today)]
             ELSE data,
             i + 1,
             Append(changes, [capability |-> data[i].capability,
                              old_url |-> data[i].url,
                              new_url |-> fixes[data[i].url].url,
                              granularity_change |-> fixes[data[i].url].sourceGranularity]),
             fixes, dry_run, today)
    ELSE ApplyFixesFrom(data, i + 1, changes, fixes, dry_run, today)

\* the loop run a second time over the sources as the first pass left them:
\* a rewritten URL that is itself a key is rewritten again
ApplyFixesAgentTwice(data, raw_fixes, dry_run, today) ==
    ApplyFixesFrom(ApplyFixesFrom(data, 1, <<>>, NormaliseFixes(raw_fixes), dry_run, today).data,
                   1,
                   ApplyFixesFrom(data, 1, <<>>, NormaliseFixes(raw_fixes), dry_run, today).changes,
                   NormaliseFixes(raw_fixes), dry_run, today)

\* apply_fixes for one agent
ApplyFixesAgent(data, raw_fixes, dry_run, today) ==
    ApplyFixesFrom(data, 1, <<>>, NormaliseFixes(raw_fixes), dry_run, today)

(***************************************************************************)
(* The rate limiter (rate_limit, called first by fetch_url).               *)
(***************************************************************************)
RATE_LIMIT_DELAY == 1 * TicksPerUnit

\* time.time() of a process started long after the epoch: the first call
\* for a domain (last = 0) never waits
Epoch == RATE_LIMIT_DELAY

MaxTime == Epoch + ClockSpan

Callers == 1 .. NumCallers

\* the URLs the callers of the rate limiter fetch
RateUrls == {<<"x", "p">>, <<"x", "q">>, <<"y", "p">>}

VARIABLES
    clock,              \* time.time()
    last_request_time,  \* _last_request_time: domain -> timestamp
    pc,                 \* each caller's position in fetch_url / rate_limit
    domain,             \* each caller's local: domain
    now,                \* each caller's local: now
    last,               \* each caller's local: last
    wake,               \* each caller's wake-up time while in time.sleep
    dispatched,         \* history: the (domain, timestamp) pairs recorded
    caps,               \* agents/<agent>/capabilities/current.json, per agent:
                        \* the sources in the order of the two nested loops,
                        \* each with the name of its capability
    store,              \* agents/<agent>/verification/<pass>.json
    today,              \* date.today() of the last invocation: the model's
                        \* invocations are made on successive days
    mpc,                \* the position of the running invocation of main
    run,                \* the locals of the running invocation
    exit_status,        \* how the last invocation ended
    out,                \* what the last maintenance invocation returned
    invocations,        \* invocations of main started so far
    cmd,                \* history: the last invocation's command line
    prev_cmd,           \* history: the mode and --dry-run of the one before
    caps0,              \* history: caps when the last invocation started
    store0,             \* history: store when the last invocation started
    completed           \* history: the (agent, pass) pairs whose pass loop
                        \* ended in the last invocation

rateVars == <<clock, last_request_time, pc, domain, now, last, wake, dispatched>>

pipeVars == <<caps, store, today, mpc, run, exit_status, out, invocations,
              cmd, prev_cmd, caps0, store0, completed>>

vars == <<rateVars, pipeVars>>

\* the agent directories that hold capabilities/current.json, sorted
AllAgents == <<"ag1", "ag2">>

Passes == {"reachability", "relevance"}

\* a result document that does not exist
AbsentDoc == [state |-> "absent", generated_at |-> 0, pass |-> "", results |-> <<>>]

\* a result document cut short: open(..., 'w') truncated it and the process
\* ended before json.dump had written it out
TruncatedDoc == [state |-> "truncated", generated_at |-> 0, pass |-> "", results |-> <<>>]

\* the locals of main when no invocation runs
\* (fetched is history: the fetch result behind each entry of the cache;
\* requests is history: the calls of fetch_url made by the pass, in order)
NoRun == [agents |-> <<>>, passes |-> <<>>, pi |-> 0, ai |-> 0, si |-> 0,
          cache |-> <<>>, agent_results |-> <<>>, results |-> <<>>, fetched |-> <<>>,
          requests |-> <<>>]

\* a command line: the mode, the agents, --pass, --dry-run, the fixes file,
\* and the date of the invocation
Command(name, agents, passes, dry_run, raw_fixes) ==
    [name |-> name, agents |-> agents, passes |-> passes, dry_run |-> dry_run,
     raw_fixes |-> raw_fixes, date |-> today + 1]

NoCmd == [name |-> "none", agents |-> <<>>, passes |-> <<>>, dry_run |-> FALSE,
          raw_fixes |-> <<>>, date |-> 0]

\* the pipeline before any invocation, for given files
PipeInit(c, st) ==
    /\ caps = c
    /\ store = st
    /\ today = 0
    /\ mpc = "idle"
    /\ run = NoRun
    /\ exit_status = "none"
    /\ out = <<>>
    /\ invocations = 0
    /\ cmd = NoCmd
    /\ prev_cmd = [name |-> NoCmd.name, dry_run |-> NoCmd.dry_run]
    /\ caps0 = c
    /\ store0 = st
    /\ completed = {}

RateInit ==
    /\ clock = Epoch
    /\ last_request_time = <<>>
    /\ pc = [c \in Callers |-> "idle"]
    /\ domain = [c \in Callers |-> ""]
    /\ now = [c \in Callers |-> 0]
    /\ last = [c \in Callers |-> 0]
    /\ wake = [c \in Callers |-> 0]
    /\ dispatched = <<>>

\* the rate limiter alone: no agent directory, nothing invoked
InitRate == RateInit /\ PipeInit(<<>>, <<>>)

\* calls of fetch_url in progress
InFlight == Cardinality({c \in Callers : pc[c] /= "idle"})

\* fetch_url entered: domain = get_domain(url); rate_limit(domain)
FetchEnter(c, url) ==
    /\ pc[c] = "idle"
    /\ Len(dispatched) + InFlight < MaxFetches
    /\ domain' = [domain EXCEPT ![c] = get_domain(url)]
    /\ pc' = [pc EXCEPT ![c] = "read_now"]
    /\ UNCHANGED <<clock, last_request_time, now, last, wake, dispatched, pipeVars>>

\* now = time.time()
RateReadNow(c) ==
    /\ pc[c] = "read_now"
    /\ now' = [now EXCEPT ![c] = clock]
    /\ pc' = [pc EXCEPT ![c] = "read_last"]
    /\ UNCHANGED <<clock, last_request_time, domain, last, wake, dispatched, pipeVars>>

\* last = _last_request_time.get(domain, 0)
RateReadLast(c) ==
    /\ pc[c] = "read_last"
    /\ last' = [last EXCEPT ![c] = DictGet(last_request_time, domain[c], 0)]
    /\ pc' = [pc EXCEPT ![c] = "compute_wait"]
    /\ UNCHANGED <<clock, last_request_time, domain, now, wake, dispatched, pipeVars>>

\* the subtraction the wrong way round: the elapsed time minus the delay
WaitForInverted(n, l) == (n - l) - RATE_LIMIT_DELAY

\* wait = RATE_LIMIT_DELAY - (now - last)
WaitFor(n, l) == RATE_LIMIT_DELAY - (n - l)

\* if wait > 0: time.sleep(wait)   (the sleep starts at the current time)
RateComputeWait(c) ==
    /\ pc[c] = "compute_wait"
    /\ IF WaitFor(now[c], last[c]) > 0
       THEN /\ wake' = [wake EXCEPT ![c] = clock + WaitFor(now[c], last[c])]
            /\ pc' = [pc EXCEPT ![c] = "sleep"]
       ELSE /\ wake' = wake
            /\ pc' = [pc EXCEPT ![c] = "record"]
    /\ UNCHANGED <<clock, last_request_time, domain, now, last, dispatched, pipeVars>>

\* time.sleep returns: not before the requested time has passed
RateWake(c) ==
    /\ pc[c] = "sleep"
    /\ clock >= wake[c]
    /\ pc' = [pc EXCEPT ![c] = "record"]
    /\ UNCHANGED <<clock, last_request_time, domain, now, last, wake, dispatched, pipeVars>>

\* _last_request_time[domain] = time.time(); the request is dispatched next
RateRecord(c) ==
    /\ pc[c] = "record"
    /\ last_request_time' = DictPut(last_request_time, domain[c], clock)
    /\ dispatched' = Append(dispatched, [domain |-> domain[c], time |-> clock, caller |-> c])
    /\ pc' = [pc EXCEPT ![c] = "idle"]
    /\ UNCHANGED <<clock, domain, now, last, wake, pipeVars>>

\* time passes
Tick ==
    /\ clock < MaxTime
    /\ clock' = clock + 1
    /\ UNCHANGED <<last_request_time, pc, domain, now, last, wake, dispatched, pipeVars>>

RateStep(c) ==
    \/ \E url \in RateUrls : FetchEnter(c, url)
    \/ RateReadNow(c)
    \/ RateReadLast(c)
    \/ RateComputeWait(c)
    \/ RateWake(c)
    \/ RateRecord(c)

\* callers that run concurrently: every interleaving of their steps
NextConcurrent == Tick \/ \E c \in Callers : RateStep(c)

\* a sequence of calls: a call begins only when no other call is in progress
NextSequential ==
    \/ Tick
    \/ \E c \in Callers : (\A d \in Callers \ {c} : pc[d] = "idle") /\ RateStep(c)

SpecRateSeq == InitRate /\ [][NextSequential]_vars

SpecRateConc == InitRate /\ [][NextConcurrent]_vars

(***************************************************************************)
(* main: a verification run.  One step is one iteration of the inner loop  *)
(* of a pass (the fetch included), the end of an agent's loop, one call of *)
(* save_results, or the end of the saving loop.                            *)
(***************************************************************************)
\* the elements of a list
Range(f) == {f[i] : i \in DOMAIN f}

\* cap_file.exists()
HasFile(a) == a \in DOMAIN caps

CurPass == run.passes[run.pi]

CurAgent == run.agents[run.ai]

CurSrc == caps[CurAgent][run.si]

\* pass1_reachability fetches with HEAD, pass2_relevance with GET
Method(pass) == IF pass = "reachability" THEN "HEAD" ELSE "GET"

\* what the pass keeps per base URL: checked_urls holds the fetch result,
\* page_cache the extracted page
CacheEntry(pass, r) == IF pass = "reachability" THEN r ELSE PageOf(r)

\* the record the pass appends for a source
PassRecord(pass, src, entry) ==
    IF pass = "reachability" THEN ReachabilityRecord(src, entry)
    ELSE RelevanceRecord(src, entry)

\* the locals at the start of a pass
StartOfPass(agents, passes, pi) ==
    [agents |-> agents, passes |-> passes, pi |-> pi, ai |-> 1, si |-> 1,
     cache |-> <<>>, agent_results |-> <<>>, results |-> <<>>, fetched |-> <<>>,
     requests |-> <<>>]

\* main with no maintenance flag: --agent chooses the agents, --pass the passes
VerifyStart(agents, passes) ==
    /\ mpc = "idle"
    /\ passes /= <<>>
    /\ invocations' = invocations + 1
    /\ cmd' = Command("verify", agents, passes, FALSE, <<>>)
    /\ prev_cmd' = [name |-> cmd.name, dry_run |-> cmd.dry_run]
    /\ caps0' = caps
    /\ store0' = store
    /\ completed' = {}
    /\ out' = <<>>
    /\ exit_status' = "running"
    /\ mpc' = "pass"
    /\ run' = StartOfPass(agents, passes, 1)
    /\ today' = today + 1
    /\ UNCHANGED <<caps, store, rateVars>>

\* the pass is inside the loop over the sources of an agent that has a file
InLoopBody ==
    /\ mpc = "pass"
    /\ run.ai <= Len(run.agents)
    /\ HasFile(CurAgent)
    /\ run.si <= Len(caps[CurAgent])

\* one source whose base URL was fetched before: no fetch, one more record
PassSourceCached ==
    /\ InLoopBody
    /\ BaseUrl(CurSrc.url) \in DOMAIN run.cache
    /\ run' = [run EXCEPT
                  !.agent_results =
                      Append(@, PassRecord(CurPass, CurSrc, run.cache[BaseUrl(CurSrc.url)])),
                  !.si = @ + 1]
    /\ UNCHANGED <<caps, store, today, mpc, exit_status, out, invocations,
                   cmd, prev_cmd, caps0, store0, completed, rateVars>>

\* the fetch made for every source, cached or not
PassSourceFetchAlways(resp) ==
    /\ InLoopBody
    /\ ~FetchRaises(BaseUrl(CurSrc.url))
    /\ LET result == fetch_url(BaseUrl(CurSrc.url), Method(CurPass), resp)
           entry == CacheEntry(CurPass, result)
       IN run' = [run EXCEPT
                     !.cache = DictPut(@, BaseUrl(CurSrc.url), entry),
                     !.fetched = DictPut(@, BaseUrl(CurSrc.url), result),
                     !.requests = Append(@, [agent |-> CurAgent,
                                             url |-> BaseUrl(CurSrc.url),
                                             method |-> Method(CurPass)]),
                     !.agent_results = Append(@, PassRecord(CurPass, CurSrc, entry)),
                     !.si = @ + 1]
    /\ UNCHANGED <<caps, store, today, mpc, exit_status, out, invocations,
                   cmd, prev_cmd, caps0, store0, completed, rateVars>>

\* one source whose base URL is fetched now, the network answering resp
PassSourceFetch(resp) ==
    /\ InLoopBody
    /\ BaseUrl(CurSrc.url) \notin DOMAIN run.cache
    /\ ~FetchRaises(BaseUrl(CurSrc.url))
    /\ LET result == fetch_url(BaseUrl(CurSrc.url), Method(CurPass), resp)
           entry == CacheEntry(CurPass, result)
       IN run' = [run EXCEPT
                     !.cache = DictPut(@, BaseUrl(CurSrc.url), entry),
                     !.fetched = DictPut(@, BaseUrl(CurSrc.url), result),
                     !.requests = Append(@, [agent |-> CurAgent,
                                             url |-> BaseUrl(CurSrc.url),
                                             method |-> Method(CurPass)]),
                     !.agent_results = Append(@, PassRecord(CurPass, CurSrc, entry)),
                     !.si = @ + 1]
    /\ UNCHANGED <<caps, store, today, mpc, exit_status, out, invocations,
                   cmd, prev_cmd, caps0, store0, completed, rateVars>>

\* one source for whose base URL fetch_url raises: nothing catches the
\* exception, the interpreter prints the traceback and exits
PassSourceRaise ==
    /\ InLoopBody
    /\ BaseUrl(CurSrc.url) \notin DOMAIN run.cache
    /\ FetchRaises(BaseUrl(CurSrc.url))
    /\ mpc' = "idle"
    /\ run' = NoRun
    /\ exit_status' = "exception"
    /\ UNCHANGED <<caps, store, today, out, invocations, cmd, prev_cmd, caps0,
                   store0, completed, rateVars>>

\* an agent without capabilities/current.json: continue
PassAgentSkip ==
    /\ mpc = "pass"
    /\ run.ai <= Len(run.agents)
    /\ ~HasFile(CurAgent)
    /\ run' = [run EXCEPT !.ai = @ + 1]
    /\ UNCHANGED <<caps, store, today, mpc, exit_status, out, invocations,
                   cmd, prev_cmd, caps0, store0, completed, rateVars>>

\* the loop over an agent's sources ends: results[agent_name] = agent_results
PassAgentDone ==
    /\ mpc = "pass"
    /\ run.ai <= Len(run.agents)
    /\ HasFile(CurAgent)
    /\ run.si > Len(caps[CurAgent])
    /\ run' = [run EXCEPT
                  !.results = Append(@, [agent |-> CurAgent, results |-> run.agent_results]),
                  !.ai = @ + 1,
                  !.si = 1,
                  !.cache = <<>>,
                  !.fetched = <<>>,
                  !.agent_results = <<>>]
    /\ completed' = completed \cup {<<CurAgent, CurPass>>}
    /\ UNCHANGED <<caps, store, today, mpc, exit_status, out, invocations,
                   cmd, prev_cmd, caps0, store0, rateVars>>

\* the pass returns its results; main goes on to save them
PassDone ==
    /\ mpc = "pass"
    /\ run.ai > Len(run.agents)
    /\ mpc' = "save"
    /\ run' = [run EXCEPT !.ai = 1]
    /\ UNCHANGED <<caps, store, today, exit_status, out, invocations,
                   cmd, prev_cmd, caps0, store0, completed, rateVars>>

\* the document save_results writes
ResultDoc(pass_name, results) ==
    [state |-> "ok", generated_at |-> today, pass |-> pass_name, results |-> results]

\* every agent's document of the pass replaced, whichever agent was named
save_results_all(st, agent, pass_name, results) ==
    [a \in DOMAIN st |-> [st[a] EXCEPT ![pass_name] = ResultDoc(pass_name, results)]]

\* the new records added to those of the document that is there
save_results_merging(st, agent, pass_name, results) ==
    [st EXCEPT ![agent][pass_name] =
                   ResultDoc(pass_name, st[agent][pass_name].results \o results)]

\* save_results(agent, pass_name, results): the store afterwards
save_results(st, agent, pass_name, results) ==
    [st EXCEPT ![agent][pass_name] = ResultDoc(pass_name, results)]

\* main saves the results of the next agent
SaveResults ==
    /\ mpc = "save"
    /\ run.ai <= Len(run.results)
    /\ store' = save_results(store, run.results[run.ai].agent, CurPass,
                             run.results[run.ai].results)
    /\ run' = [run EXCEPT !.ai = @ + 1]
    /\ UNCHANGED <<caps, today, mpc, exit_status, out, invocations,
                   cmd, prev_cmd, caps0, store0, completed, rateVars>>

\* all results saved and the summary printed: the next pass, or exit 0
SaveDone ==
    /\ mpc = "save"
    /\ run.ai > Len(run.results)
    /\ IF run.pi < Len(run.passes)
       THEN /\ mpc' = "pass"
            /\ run' = StartOfPass(run.agents, run.passes, run.pi + 1)
            /\ exit_status' = exit_status
       ELSE /\ mpc' = "idle"
            /\ run' = NoRun
            /\ exit_status' = "0"
    /\ UNCHANGED <<caps, store, today, out, invocations, cmd, prev_cmd, caps0,
                   store0, completed, rateVars>>

\* the process is interrupted (killed, Ctrl-C) between two steps
Interrupt ==
    /\ mpc /= "idle"
    /\ mpc' = "idle"
    /\ run' = NoRun
    /\ exit_status' = "interrupted"
    /\ UNCHANGED <<caps, store, today, out, invocations, cmd, prev_cmd, caps0,
                   store0, completed, rateVars>>

\* the process is interrupted inside save_results, after open(..., 'w') and
\* before the document is written out
InterruptInSave ==
    /\ mpc = "save"
    /\ run.ai <= Len(run.results)
    /\ store' = [store EXCEPT ![run.results[run.ai].agent][CurPass] = TruncatedDoc]
    /\ mpc' = "idle"
    /\ run' = NoRun
    /\ exit_status' = "interrupted"
    /\ UNCHANGED <<caps, today, out, invocations, cmd, prev_cmd, caps0, store0,
                   completed, rateVars>>

\* the steps of a running verification that make no request
PassStep ==
    \/ PassSourceCached
    \/ PassAgentDone
    \/ PassDone
    \/ SaveResults
    \/ SaveDone

(***************************************************************************)
(* main: the maintenance modes.  Each is one step: it reads the files,     *)
(* rewrites the capability files and returns.                              *)
(***************************************************************************)
\* load_reachability_results raises: json.load meets a document cut short
LoadRaises(agents, st) ==
    \E a \in Range(agents) : a \in DOMAIN st /\ st[a]["reachability"].state = "truncated"

\* load_reachability_results: the agents that have a reachability.json
Loaded(agents, st) ==
    {a \in Range(agents) : a \in DOMAIN st /\ st[a]["reachability"].state = "ok"}

\* the agents for which fix_redirects gets as far as the loop over the
\* sources: a capability file, saved results, a redirect map that is not empty
Repaired(agents, c, st) ==
    {a \in Loaded(agents, st) :
        /\ a \in DOMAIN c
        /\ st[a]["reachability"].results /= <<>>
        /\ RedirectMap(st[a]["reachability"].results) /= <<>>}

\* if changes and not dry_run: the capability file is rewritten
Written(changes, dry_run) == changes /= <<>> /\ ~dry_run

\* fix_redirects(agents, dry_run) on capability files c and result store st,
\* on day d: the dict returned and the capability files afterwards
fix_redirects(agents, dry_run, c, st, d) ==
    LET fixed(a) == FixRedirectsAgent(c[a], st[a]["reachability"].results, dry_run, d)
    IN [all_changes |-> [a \in Repaired(agents, c, st) |-> fixed(a).changes],
        caps |-> [a \in DOMAIN c |->
                     IF a \in Repaired(agents, c, st) /\ Written(fixed(a).changes, dry_run)
                     THEN fixed(a).data
                     ELSE c[a]]]

\* apply_fixes(agents, fixes_file, dry_run)
apply_fixes(agents, raw_fixes, dry_run, c, d) ==
    LET fixed(a) == ApplyFixesAgent(c[a], raw_fixes, dry_run, d)
    IN [all_changes |-> [a \in Range(agents) \cap DOMAIN c |-> fixed(a).changes],
        caps |-> [a \in DOMAIN c |->
                     IF a \in Range(agents) /\ Written(fixed(a).changes, dry_run)
                     THEN fixed(a).data
                     ELSE c[a]]]

\* an invocation that is one step: its history
OneStep(command) ==
    /\ mpc = "idle"
    /\ invocations' = invocations + 1
    /\ cmd' = command
    /\ prev_cmd' = [name |-> cmd.name, dry_run |-> cmd.dry_run]
    /\ caps0' = caps
    /\ store0' = store
    /\ completed' = {}
    /\ today' = today + 1
    /\ UNCHANGED <<store, mpc, run, rateVars>>

\* main --fix-redirects [--dry-run] [--agent A]
FixRedirectsCmd(agents, dry_run) ==
    /\ OneStep(Command("fix_redirects", agents, <<>>, dry_run, <<>>))
    /\ IF LoadRaises(agents, store)
       THEN /\ exit_status' = "exception"
            /\ out' = <<>>
            /\ caps' = caps
       ELSE /\ exit_status' = "0"
            /\ out' = fix_redirects(agents, dry_run, caps, store, today + 1).all_changes
            /\ caps' = fix_redirects(agents, dry_run, caps, store, today + 1).caps

\* main --apply-fixes FIXES_JSON [--dry-run] [--agent A], the file existing
ApplyFixesCmd(agents, raw_fixes, dry_run) ==
    /\ OneStep(Command("apply_fixes", agents, <<>>, dry_run, raw_fixes))
    /\ exit_status' = "0"
    /\ out' = apply_fixes(agents, raw_fixes, dry_run, caps, today + 1).all_changes
    /\ caps' = apply_fixes(agents, raw_fixes, dry_run, caps, today + 1).caps

\* [r for r in results if not r.get('reachable') and r.get('error')]
Broken(results) == SelectSeq(results, LAMBDA r : ~r.reachable /\ Truthy(r.error))

\* a line for every broken record, seen before or not
ReportLinesAll(broken, seen_urls) ==
    [i \in 1 .. Len(broken) |-> [capability |-> broken[i].capability,
                                 url |-> BaseUrl(broken[i].url),
                                 error |-> broken[i].error]]

RECURSIVE ReportLines(_, _)
\* the lines printed for the broken records: one per base URL, the first
\* record of each (seen_urls)
ReportLines(broken, seen_urls) ==
    IF broken = <<>> THEN <<>>
    ELSE IF BaseUrl(Head(broken).url) \in seen_urls
    THEN ReportLines(Tail(broken), seen_urls)
    ELSE <<[capability |-> Head(broken).capability,
            url |-> BaseUrl(Head(broken).url),
            error |-> Head(broken).error]>>
         \o ReportLines(Tail(broken), seen_urls \cup {BaseUrl(Head(broken).url)})

\* report_broken(agents): what is printed, per agent that has broken sources
report_broken(agents, st) ==
    [a \in {b \in Loaded(agents, st) : Broken(st[b]["reachability"].results) /= <<>>} |->
        ReportLines(Broken(st[a]["reachability"].results), {})]

\* a report that goes on to repair the redirects it read
ReportCmdRepairing(agents) ==
    /\ OneStep(Command("report", agents, <<>>, FALSE, <<>>))
    /\ exit_status' = "0"
    /\ out' = report_broken(agents, store)
    /\ caps' = fix_redirects(agents, FALSE, caps, store, today + 1).caps

\* main --report [--agent A]
ReportCmd(agents) ==
    /\ OneStep(Command("report", agents, <<>>, FALSE, <<>>))
    /\ caps' = caps
    /\ IF LoadRaises(agents, store)
       THEN /\ exit_status' = "exception"
            /\ out' = <<>>
       ELSE /\ exit_status' = "0"
            /\ out' = report_broken(agents, store)

(***************************************************************************)
(* Inputs: capability files, network responses, fixes files.               *)
(***************************************************************************)
Source(capability, url, granularity, excerpt) ==
    [capability |-> capability, url |-> url, sourceGranularity |-> granularity,
     excerpt |-> excerpt, verifiedDate |-> 0]

\* capability names
NameAb == <<"A", "b">>
NameTt == <<"t", "t">>

\* URLs: two pages of host x, one of host y
UrlXp == <<"x", "p">>
UrlXq == <<"x", "q">>
UrlYp == <<"y", "p">>

DedicatedXp == Source(NameAb, UrlXp, "dedicated", None)
SectionXpS == Source(NameAb, UrlXp \o <<"#", "s">>, "section", None)
DedicatedXq == Source(NameTt, UrlXq, "dedicated", None)
ExcerptXq == Source(NameTt, UrlXq, "excerpt", <<"a", "\n", "b">>)
\* a citation whose URL is empty
DedicatedEmpty == Source(NameTt, <<>>, "dedicated", None)

\* a page: a heading with an anchor, text, a script
PageBody ==
    << [type |-> "start", tag |-> "h2", attrs |-> << <<"id", <<"s">> >> >>],
       [type |-> "data", data |-> <<"a", "b">>],
       [type |-> "end", tag |-> "h2"],
       [type |-> "start", tag |-> "script", attrs |-> <<>>],
       [type |-> "data", data |-> <<"t", "t">>],
       [type |-> "end", tag |-> "script"] >>

\* a page on whose markup the parser raises after the first text
MalformedBody ==
    << [type |-> "data", data |-> <<"a", " ", "b">>],
       [type |-> "error"],
       [type |-> "data", data |-> <<"t", "t">>] >>

OkResponse(status, final, body) ==
    [kind |-> "ok", status |-> status, final |-> final, body |-> body, reason |-> None]

HttpError(status) ==
    [kind |-> "http_error", status |-> status, final |-> None, body |-> <<>>,
     reason |-> <<"H", "T", "T", "P">>]

UrlError ==
    [kind |-> "url_error", status |-> 0, final |-> None, body |-> <<>>,
     reason |-> <<"d", "n", "s">>]

\* the bodies a server sends: none to HEAD
Bodies(method) == IF method = "GET" THEN {PageBody, MalformedBody, <<>>} ELSE {<<>>}

\* the responses to the requests of a verification run
VerifyResponses(url, method) ==
    {OkResponse(200, url, b) : b \in Bodies(method)}
        \cup (IF method = "HEAD" THEN {OkResponse(200, UrlYp, <<>>), HttpError(399)} ELSE {})
        \cup {HttpError(400), UrlError}

\* where a server may redirect a request for url: another page of the host,
\* a page of a new host with a fragment of its own, the requested page with
\* a fragment
RedirectTargets(url) ==
    {UrlXq, UrlYp \o <<"#", "t">>, url \o <<"#", "s">>} \ {url}

\* the responses to the HEAD requests of the maintenance workflow
RepairResponses(url, method) ==
    {OkResponse(200, url, <<>>), HttpError(400)}
        \cup {OkResponse(200, u, <<>>) : u \in RedirectTargets(url)}

\* a source is verified, the network answering a verification run's request
VerifyFetch ==
    /\ InLoopBody
    /\ \E resp \in VerifyResponses(BaseUrl(CurSrc.url), Method(CurPass)) : PassSourceFetch(resp)

\* a source is verified, the network answering the maintenance workflow's request
RepairFetch ==
    /\ InLoopBody
    /\ \E resp \in RepairResponses(BaseUrl(CurSrc.url), Method(CurPass)) : PassSourceFetch(resp)

\* result stores before a verification run: empty, or left by a run made
\* when the capability files cited other sources
OldReachability ==
    [state |-> "ok", generated_at |-> 0, pass |-> "reachability",
     results |-> <<ReachabilityRecord(DedicatedXq, fetch_url(UrlXq, "HEAD", HttpError(400)))>>]

OldRelevance ==
    [state |-> "ok", generated_at |-> 0, pass |-> "relevance",
     results |-> <<RelevanceRecord(DedicatedXq, PageOf(fetch_url(UrlXq, "GET", UrlError)))>>]

EmptyStore == [a \in Range(AllAgents) |-> [reachability |-> AbsentDoc, relevance |-> AbsentDoc]]

OldStore == [a \in Range(AllAgents) |-> [reachability |-> OldReachability, relevance |-> OldRelevance]]

\* capability files of a verification run
VerifyCaps ==
    {[ag1 |-> d1, ag2 |-> d2] :
        d1 \in {<<DedicatedXp>>, <<DedicatedXp, SectionXpS>>, <<SectionXpS, ExcerptXq>>,
                <<ExcerptXq, DedicatedEmpty>>, <<DedicatedEmpty, DedicatedXp>>},
        d2 \in {<<>>, <<DedicatedXq>>, <<SectionXpS>>}}

\* the command lines of a verification run: all agents or --agent, the
\* default passes or --pass
VerifyAgents == {AllAgents, <<"ag1">>, <<"zz">>}

VerifyPasses == {<<"reachability", "relevance">>, <<"reachability">>, <<"relevance">>}

InitVerify ==
    /\ RateInit
    /\ \E c \in VerifyCaps, st \in {EmptyStore, OldStore} : PipeInit(c, st)

\* one verification run, interrupted anywhere or not
NextVerify ==
    \/ /\ invocations = 0
       /\ \E agents \in VerifyAgents, passes \in VerifyPasses : VerifyStart(agents, passes)
    \/ VerifyFetch
    \/ PassStep
    \/ PassSourceRaise
    \/ PassAgentSkip
    \/ Interrupt
    \/ InterruptInSave

SpecVerify == InitVerify /\ [][NextVerify]_vars

\* capability files of the maintenance workflow
RepairCaps ==
    {[ag1 |-> d1, ag2 |-> <<DedicatedXq>>] :
        d1 \in {<<SectionXpS>>, <<DedicatedXp, SectionXpS>>}}
    \cup
    {[ag1 |-> d1, ag2 |-> <<>>] :
        d1 \in {<<DedicatedXp, DedicatedXq>>, <<SectionXpS, ExcerptXq>>}}

\* fixes files
StrFix(url) == [kind |-> "str", url |-> url, sourceGranularity |-> NoGranularity]

DictFix(url, granularity) == [kind |-> "dict", url |-> url, sourceGranularity |-> granularity]

FixesFiles ==
    {DictPut(<<>>, UrlXp, StrFix(UrlXq)),
     DictPut(<<>>, UrlXp \o <<"#", "s">>, StrFix(UrlYp)),
     DictPut(<<>>, UrlXq, DictFix(UrlXp \o <<"#", "s">>, "section"))}

InitRepair ==
    /\ RateInit
    /\ \E c \in RepairCaps : PipeInit(c, EmptyStore)

\* the maintenance workflow: reachability runs, redirect repairs, fixes
NextRepair ==
    \/ /\ invocations < MaxInvocations
       /\ \/ VerifyStart(AllAgents, <<"reachability">>)
          \/ ReportCmd(AllAgents)
          \/ \E dry_run \in BOOLEAN : FixRedirectsCmd(AllAgents, dry_run)
          \/ \E raw_fixes \in FixesFiles, dry_run \in BOOLEAN :
                 ApplyFixesCmd(AllAgents, raw_fixes, dry_run)
    \/ RepairFetch
    \/ PassStep

Init == InitRepair

Next == NextRepair

Spec == Init /\ [][Next]_vars

\* entries i < j of the history are consecutive fetches of one domain
ConsecutiveSameDomain(i, j) ==
    /\ i < j
    /\ dispatched[i].domain = dispatched[j].domain
    /\ \A k \in (i + 1) .. (j - 1) : dispatched[k].domain /= dispatched[i].domain

\* consecutive recorded timestamps of one domain are RATE_LIMIT_DELAY apart
SameDomainSpacing ==
    \A i, j \in 1 .. Len(dispatched) :
        ConsecutiveSameDomain(i, j) =>
            dispatched[j].time - dispatched[i].time >= RATE_LIMIT_DELAY

\* a caller sleeps only because of a recorded request to its own domain
WaitsOnOwnDomainOnly ==
    \A c \in Callers :
        pc[c] = "sleep" =>
            \E i \in 1 .. Len(dispatched) :
                /\ dispatched[i].domain = domain[c]
                /\ dispatched[i].time = last[c]

\* C1: in a sequence of fetch_url calls, the timestamp rate_limit records for
\* a fetch is at least RATE_LIMIT_DELAY after the timestamp recorded for the
\* previous fetch of the same domain.
C1_SequentialSpacing == SameDomainSpacing

\* two consecutive fetches of one domain, the later one delayed by the sleep
\* to exactly RATE_LIMIT_DELAY after the earlier one
C1_Witness ==
    \E i, j \in 1 .. Len(dispatched) :
        /\ ConsecutiveSameDomain(i, j)
        /\ dispatched[j].time - dispatched[i].time = RATE_LIMIT_DELAY
        /\ dispatched[i].time > Epoch

\* C2: with concurrent callers, under every interleaving of the steps of
\* rate_limit, no two requests to one domain are recorded less than
\* RATE_LIMIT_DELAY apart, and callers of different domains never wait on
\* each other.
C2_ConcurrentSerialized == SameDomainSpacing /\ WaitsOnOwnDomainOnly

(***************************************************************************)
(* A verification run: what it leaves behind.                              *)
(***************************************************************************)
\* the agents of the command line that have a capability file
Processed == {a \in Range(cmd.agents) : a \in DOMAIN caps}

\* a verification run has ended without being interrupted
VerifyEnded ==
    /\ cmd.name = "verify"
    /\ mpc = "idle"
    /\ exit_status \notin {"none", "interrupted"}

\* the saved document of agent a and pass p has one record per source of a,
\* in the order of the sources
OneRecordPerSource(a, p) ==
    /\ store[a][p].state = "ok"
    /\ Len(store[a][p].results) = Len(caps[a])
    /\ \A i \in 1 .. Len(caps[a]) : store[a][p].results[i].url = caps[a][i].url

\* the records of the pass in progress report a fetch that failed (a status
\* outside 200..399) as not reachable / not relevant
FailuresFlagged ==
    (mpc = "pass") =>
        \A k \in 1 .. Len(run.agent_results) :
            LET rec == run.agent_results[k]
                r == run.fetched[BaseUrl(rec.url)]
            IN (r.status < 200 \/ r.status > 399) =>
                   IF CurPass = "reachability" THEN ~rec.reachable ELSE ~rec.relevant

\* C3: every per-URL failure of a verification pass (transport error, HTTP
\* error status, malformed markup, an empty or malformed URL) is recovered
\* locally: the run completes, its output holds one record for every source
\* of every processed agent, and the failing ones are reported as not
\* reachable / not relevant.
C3_FailuresRecoveredLocally ==
    /\ FailuresFlagged
    /\ VerifyEnded =>
           /\ exit_status = "0"
           /\ \A a \in Processed : \A p \in Range(cmd.passes) : OneRecordPerSource(a, p)

\* the record carries the page_reachable marker
MarkedUnreachable(rec) == "page_reachable" \in DOMAIN rec.checks

\* C6: in the relevance pass a source gets relevant = false with the
\* page_reachable = false marker and no other check exactly when its base
\* page was unreachable (GET status outside 200..399, which includes the
\* status 0 of a fetch error); a page fetched with a status in 200..399 gets
\* the check of its granularity.
C6_MarkerIffUnreachable ==
    (mpc = "pass") =>
        \A k \in 1 .. Len(run.agent_results) :
            LET rec == run.agent_results[k]
                r == run.fetched[BaseUrl(rec.url)]
            IN (CurPass = "relevance") =>
                   /\ MarkedUnreachable(rec) <=> (r.status < 200 \/ r.status > 399)
                   /\ MarkedUnreachable(rec) =>
                          (~rec.relevant /\ DOMAIN rec.checks = {"page_reachable"})

\* C7: an interrupted or failed verification run leaves the result document
\* of every (agent, pass) for which the pass has not completed exactly as it
\* was before the run; a document is written only after the pass has
\* completed for that agent.
C7_UncompletedUntouched ==
    \A a \in DOMAIN store : \A p \in Passes :
        <<a, p>> \notin completed => store[a][p] = store0[a][p]

\* a run of both passes interrupted in its second pass: the first pass's
\* document is rewritten, the second's, which existed before, is still there
C7_Witness ==
    /\ cmd.name = "verify"
    /\ exit_status = "interrupted"
    /\ \E a \in Processed :
           /\ <<a, "reachability">> \in completed
           /\ store[a]["reachability"] /= store0[a]["reachability"]
           /\ "relevance" \in Range(cmd.passes)
           /\ <<a, "relevance">> \notin completed
           /\ store0[a]["relevance"].state = "ok"

\* the reachability records: saved, and collected by the pass in progress
ReachabilityRecords ==
    UNION {Range(store[a]["reachability"].results) : a \in DOMAIN store}
        \cup (IF mpc = "pass"
              THEN (IF CurPass = "reachability" THEN Range(run.agent_results) ELSE {})
              ELSE {})

\* C8: a reachability record has reachable = true if and only if its status
\* code is in 200..399; status 0 (transport failure) and every status >= 400
\* give reachable = false.
C8_ReachableIffStatusInRange ==
    \A rec \in ReachabilityRecords :
        /\ rec.reachable <=> (200 <= rec.status_code /\ rec.status_code <= 399)
        /\ (rec.status_code = 0 \/ rec.status_code >= 400) => ~rec.reachable

\* a document saved by this run with a status at each side of the boundary
C8_Witness ==
    /\ cmd.name = "verify"
    /\ \E a \in Processed :
           /\ store[a]["reachability"].state = "ok"
           /\ store[a]["reachability"].generated_at = cmd.date
           /\ \E r1, r2 \in Range(store[a]["reachability"].results) :
                  /\ r1.status_code = 399 /\ r1.reachable
                  /\ r2.status_code = 400 /\ ~r2.reachable

(***************************************************************************)
(* The maintenance modes: what they do to the capability files.            *)
(***************************************************************************)
\* the last invocation was a redirect repair that wrote its changes
RepairRan ==
    /\ cmd.name = "fix_redirects"
    /\ ~cmd.dry_run
    /\ exit_status = "0"

\* C4: redirect repair is idempotent: a second non-dry run straight after a
\* first, with no reachability run and no other edit in between, reports no
\* change for any agent and leaves the capability files as the first left
\* them.
C4_RepairIdempotent ==
    (RepairRan /\ prev_cmd.name = "fix_redirects" /\ ~prev_cmd.dry_run) =>
        /\ \A a \in DOMAIN out : out[a] = <<>>
        /\ caps = caps0

\* a section source has a fragment in its URL, an excerpt source has
\* excerpt text
SourceInvariant(src) ==
    /\ src.sourceGranularity = "section" => HasHash(src.url)
    /\ src.sourceGranularity = "excerpt" => Truthy(src.excerpt)

\* C5: starting from capability files that satisfy the source invariant,
\* after any sequence of redirect repairs and fix applications every section
\* source still has a fragment in its URL and every excerpt source still has
\* excerpt text.
C5_SourceInvariantKept ==
    \A a \in DOMAIN caps : \A i \in 1 .. Len(caps[a]) : SourceInvariant(caps[a][i])

\* the redirect map of agent a as the last invocation found it
MapOf(a) == RedirectMap(store0[a]["reachability"].results)

\* the URL, or the URL without its fragment, is a key of the map
IsKeyed(map, url) == IF url \in DOMAIN map THEN TRUE ELSE BaseUrl(url) \in DOMAIN map

\* the value mapped for the URL if it is a key, else for the URL without
\* its fragment
KeyedTarget(map, url) == IF url \in DOMAIN map THEN map[url] ELSE map[BaseUrl(url)]

\* C9 as stated: after a reachability run has recorded redirects, a non-dry
\* redirect repair rewrites every source whose URL, or whose URL without its
\* fragment, is a key of the redirect map to the mapped value and sets its
\* verifiedDate to the date of the run.
C9_EveryKeyedSourceRewritten ==
    RepairRan =>
        \A a \in Processed :
            \A i \in 1 .. Len(caps0[a]) :
                IsKeyed(MapOf(a), caps0[a][i].url) =>
                    /\ caps[a][i].url = KeyedTarget(MapOf(a), caps0[a][i].url)
                    /\ caps[a][i].verifiedDate = cmd.date

\* C9 amended: the repair rewrites a keyed source to the mapped value and
\* stamps it with the date of the run whenever the mapped value differs from
\* the source's URL; every other source is left as it was.
C9_KeyedSourceRewrittenWhenDifferent ==
    RepairRan =>
        \A a \in DOMAIN caps0 :
            /\ Len(caps[a]) = Len(caps0[a])
            /\ \A i \in 1 .. Len(caps0[a]) :
                   LET src == caps0[a][i]
                   IN IF a \in Range(cmd.agents) /\ IsKeyed(MapOf(a), src.url)
                      THEN IF KeyedTarget(MapOf(a), src.url) /= src.url
                           THEN caps[a][i] =
                                    [src EXCEPT !.url = KeyedTarget(MapOf(a), src.url),
                                                !.verifiedDate = cmd.date]
                           ELSE caps[a][i] = src
                      ELSE caps[a][i] = src

\* a citation of host x whose URL redirected to host y carries the new
\* host's URL and the date of the run
C9_Witness ==
    /\ RepairRan
    /\ \E a \in Processed : \E i \in 1 .. Len(caps0[a]) :
           /\ caps0[a][i].url[1] = "x"
           /\ caps[a][i].url[1] = "y"
           /\ caps[a][i].verifiedDate = cmd.date
           /\ caps0[a][i].verifiedDate < cmd.date

\* C10: fix_redirects and apply_fixes with dry_run = true return the change
\* list the same call with dry_run = false returns from the same starting
\* state, and leave every capability file unchanged.
C10_DryRunSameChangesNoWrite ==
    (cmd.dry_run /\ exit_status = "0") =>
        /\ caps = caps0
        /\ cmd.name = "fix_redirects" =>
               out = fix_redirects(cmd.agents, FALSE, caps0, store0, cmd.date).all_changes
        /\ cmd.name = "apply_fixes" =>
               out = apply_fixes(cmd.agents, cmd.raw_fixes, FALSE, caps0, cmd.date).all_changes

\* a dry redirect repair that reports changes the non-dry call would write
C10_Witness ==
    /\ cmd.name = "fix_redirects"
    /\ cmd.dry_run
    /\ exit_status = "0"
    /\ \E a \in DOMAIN out : out[a] /= <<>>
    /\ fix_redirects(cmd.agents, FALSE, caps0, store0, cmd.date).caps /= caps0

(***************************************************************************)
(* The fix applier on its own: one invocation of --apply-fixes on given    *)
(* capability files with a given fixes file.                               *)
(***************************************************************************)
\* capability files
FixCaps ==
    {[ag1 |-> d1, ag2 |-> d2] :
        d1 \in {<<DedicatedXp, SectionXpS>>, <<SectionXpS, ExcerptXq>>,
                <<DedicatedXq, ExcerptXq>>, <<DedicatedXp, DedicatedXq>>},
        d2 \in {<<>>, <<DedicatedXq>>}}

\* a value of the fixes file that is neither a string nor an object
OtherFix == [kind |-> "other", url |-> <<>>, sourceGranularity |-> NoGranularity]

\* the values a fixes file gives for an old URL
FixValues ==
    {StrFix(UrlYp),
     DictFix(UrlYp \o <<"#", "t">>, "dedicated"),
     DictFix(UrlXq \o <<"#", "s">>, "section"),
     DictFix(UrlYp, "excerpt"),
     OtherFix}

\* fixes files: every value for every cited URL, and a file with two entries
AllFixes ==
    {DictPut(<<>>, k, v) : k \in {UrlXp, UrlXp \o <<"#", "s">>, UrlXq}, v \in FixValues}
        \cup {DictPut(DictPut(<<>>, UrlXp, StrFix(UrlXq)), UrlXq, DictFix(UrlYp, "dedicated"))}

InitFixes ==
    /\ RateInit
    /\ \E c \in FixCaps : PipeInit(c, EmptyStore)

\* invocations with one fixes file: all agents or --agent ag1, with or
\* without --dry-run
NextFixes ==
    /\ invocations < MaxInvocations
    /\ \E agents \in {AllAgents, <<"ag1">>}, raw_fixes \in AllFixes, dry_run \in BOOLEAN :
           /\ IF invocations > 0 THEN raw_fixes = cmd.raw_fixes ELSE TRUE
           /\ ApplyFixesCmd(agents, raw_fixes, dry_run)

SpecFixes == InitFixes /\ [][NextFixes]_vars

\* the last invocation was a fix application that wrote its changes
FixesApplied ==
    /\ cmd.name = "apply_fixes"
    /\ ~cmd.dry_run
    /\ exit_status = "0"

\* the fixes file maps the URL to a new URL (a string, or an object with url)
MapsTo(raw_fixes, url) ==
    IF url \in DOMAIN raw_fixes THEN raw_fixes[url].kind \in {"str", "dict"} ELSE FALSE

\* C11: given the mapping {A: B}, after apply_fixes every source whose URL was
\* exactly A has the URL B and the date of the run as verifiedDate, and every
\* source whose URL was not A (one that differs from A by a fragment only
\* included) is unchanged in all its fields.
C11_FixRoundTrip ==
    FixesApplied =>
        \A a \in DOMAIN caps0 :
            /\ Len(caps[a]) = Len(caps0[a])
            /\ \A i \in 1 .. Len(caps0[a]) :
                   IF a \in Range(cmd.agents) /\ MapsTo(cmd.raw_fixes, caps0[a][i].url)
                   THEN /\ caps[a][i].url = cmd.raw_fixes[caps0[a][i].url].url
                        /\ caps[a][i].verifiedDate = cmd.date
                        /\ caps[a][i].verifiedDate /= caps0[a][i].verifiedDate
                        /\ caps[a][i].capability = caps0[a][i].capability
                   ELSE caps[a][i] = caps0[a][i]

\* the source with URL A is rewritten; its neighbour, whose URL is A with a
\* fragment (or A without its fragment), is as it was
C11_Witness ==
    /\ FixesApplied
    /\ \E a \in Processed : \E i, j \in 1 .. Len(caps0[a]) :
           /\ MapsTo(cmd.raw_fixes, caps0[a][i].url)
           /\ caps[a][i].url /= caps0[a][i].url
           /\ caps0[a][j].url /= caps0[a][i].url
           /\ BaseUrl(caps0[a][j].url) = BaseUrl(caps0[a][i].url)
           /\ caps[a][j] = caps0[a][j]

\* C18: when the fix that matches a source carries sourceGranularity, the
\* source's sourceGranularity is set to it, and its excerpt is removed if the
\* new granularity is dedicated or section; when the new granularity is
\* excerpt, or the fix carries none, the excerpt is kept (and, with no
\* override, the granularity too).
C18_GranularityOverride ==
    FixesApplied =>
        \A a \in Processed : \A i \in 1 .. Len(caps0[a]) :
            MapsTo(cmd.raw_fixes, caps0[a][i].url) =>
                LET fix == cmd.raw_fixes[caps0[a][i].url]
                    given == fix.kind = "dict"
                IN /\ caps[a][i].sourceGranularity =
                          (IF given THEN fix.sourceGranularity
                           ELSE caps0[a][i].sourceGranularity)
                   /\ caps[a][i].excerpt =
                          (IF given /\ fix.sourceGranularity \in {"dedicated", "section"}
                           THEN None
                           ELSE caps0[a][i].excerpt)

\* an excerpt source made a section source has lost its excerpt
C18_Witness ==
    /\ FixesApplied
    /\ \E a \in Processed : \E i \in 1 .. Len(caps0[a]) :
           /\ caps0[a][i].sourceGranularity = "excerpt"
           /\ Truthy(caps0[a][i].excerpt)
           /\ caps[a][i].sourceGranularity = "section"
           /\ caps[a][i].excerpt = None

\* C12: capability files are modified only by a redirect repair or a fix
\* application: a verification run (its passes and the saving of their
\* results), even one that finds redirects or broken URLs, and the report of
\* broken sources leave every capability file as it was; and a redirect
\* repair or fix application changes nothing of a source but its url,
\* verifiedDate, sourceGranularity and excerpt.
C12_OnlyMaintenanceWrites ==
    /\ cmd.name \in {"verify", "report"} => caps = caps0
    /\ cmd.name \in {"fix_redirects", "apply_fixes"} =>
           \A a \in DOMAIN caps0 :
               /\ Len(caps[a]) = Len(caps0[a])
               /\ \A i \in 1 .. Len(caps0[a]) :
                      caps[a][i].capability = caps0[a][i].capability

\* a report of broken sources, printed after a verification run that saved
\* a redirect, with the capability files as they were
C12_Witness ==
    /\ cmd.name = "report"
    /\ prev_cmd.name = "verify"
    /\ exit_status = "0"
    /\ \E a \in DOMAIN out : out[a] /= <<>>
    /\ \E a \in DOMAIN store : \E r \in Range(store[a]["reachability"].results) : r.redirected
    /\ caps = caps0
    /\ fix_redirects(cmd.agents, FALSE, caps0, store0, cmd.date).caps /= caps0

(***************************************************************************)
(* The extractor on its own: one relevance pass over one page whose body   *)
(* is any sequence of start-tag, end-tag and character-data events.        *)
(***************************************************************************)
\* the events: the tags whose content is skipped, opened and closed, another
\* tag, and character data
ParserEvents ==
    {[type |-> "start", tag |-> t, attrs |-> <<>>] : t \in SkipTags \cup {"h2"}}
        \cup {[type |-> "end", tag |-> t] : t \in SkipTags}
        \cup {[type |-> "data", data |-> d] : d \in {<<"a">>, <<"T", "t">>}}

RECURSIVE ParserProduces(_, _)
\* the sequences the markup parser can emit: the content of a script or
\* style element is character data up to the element's own end tag (cdata is
\* the element that is open, "" when none is); noscript content is parsed
\* as markup
ParserProduces(body, cdata) ==
    IF body = <<>> THEN TRUE
    ELSE IF cdata /= ""
    THEN IF Head(body).type = "data" THEN ParserProduces(Tail(body), cdata)
         ELSE Head(body).type = "end" /\ Head(body).tag = cdata
              /\ ParserProduces(Tail(body), "")
    ELSE ParserProduces(Tail(body),
                        IF Head(body).type = "start" /\ Head(body).tag \in {"script", "style"}
                        THEN Head(body).tag ELSE "")

\* the bodies: every sequence of 1 to MaxEvents events the parser can emit
EventBodies ==
    {b \in UNION {[1 .. n -> ParserEvents] : n \in 1 .. MaxEvents} : ParserProduces(b, "")}

InitExtract ==
    /\ RateInit
    /\ PipeInit([ag1 |-> <<DedicatedXp, SectionXpS>>, ag2 |-> <<>>], EmptyStore)

\* the page is fetched: status 200 and one of the bodies
ExtractFetch ==
    /\ InLoopBody
    /\ BaseUrl(CurSrc.url) \notin DOMAIN run.cache
    /\ \E b \in EventBodies : PassSourceFetch(OkResponse(200, BaseUrl(CurSrc.url), b))

NextExtract ==
    \/ /\ invocations = 0
       /\ VerifyStart(<<"ag1">>, <<"relevance">>)
    \/ ExtractFetch
    \/ PassStep

SpecExtract == InitExtract /\ [][NextExtract]_vars

RECURSIVE OutsideData(_, _)
\* the character data of a body that lies outside every script, style and
\* noscript element: depth counts the elements of these kinds that are open
OutsideData(body, depth) ==
    IF body = <<>> THEN <<>>
    ELSE IF Head(body).type = "start"
    THEN OutsideData(Tail(body),
                     IF Head(body).tag \in {"script", "style", "noscript"}
                     THEN depth + 1 ELSE depth)
    ELSE IF Head(body).type = "end"
    THEN OutsideData(Tail(body),
                     IF Head(body).tag \in {"script", "style", "noscript"} /\ depth > 0
                     THEN depth - 1 ELSE depth)
    ELSE IF Head(body).type = "data"
    THEN (IF depth = 0 THEN <<Head(body).data>> ELSE <<>>) \o OutsideData(Tail(body), depth)
    ELSE OutsideData(Tail(body), depth)

\* C19: for any sequence of start-tag, end-tag and character-data events, the
\* extracted text holds all the character data outside script, style and
\* noscript elements and none of the character data inside them, nested
\* elements included.
C19_SkippedContentExcluded ==
    (mpc = "pass") =>
        \A u \in DOMAIN run.cache :
            run.cache[u].raw /= <<>> =>
                run.cache[u].text = Lower(Join(OutsideData(run.cache[u].raw, 0), <<" ">>))

(***************************************************************************)
(* The relevance pass on its own: one agent whose sources all cite the     *)
(* page x/p, by section, by name or by excerpt, and one GET of that page.  *)
(***************************************************************************)
\* n times the character c
Repeat(c, n) == [i \in 1 .. n |-> c]

\* section sources: no '#', nothing after the '#', and five fragments
SectionUrls ==
    << UrlXp,
       UrlXp \o <<"#">>,
       UrlXp \o <<"#", "s">>,
       UrlXp \o <<"#", "S">>,
       UrlXp \o <<"#", "a", "-", "b">>,
       UrlXp \o <<"#", "A", "-", "b">>,
       UrlXp \o <<"#", "a", "_", "b">> >>

SectionDoc == [i \in 1 .. Len(SectionUrls) |-> Source(NameAb, SectionUrls[i], "section", None)]

\* capability names with no, one, two and three significant words
DedicatedNames ==
    << NameAb,
       <<"S", "t", "a", "b">>,
       <<"S", "t", "a", "b", " ", "a", "t">>,
       <<"S", "t", "a", "b", " ", "T", "a", "b", "s">>,
       <<"S", "t", "a", "b", " ", "T", "a", "b", "s", " ", "B", "a", "t", "s">> >>

DedicatedDoc ==
    [i \in 1 .. Len(DedicatedNames) |-> Source(DedicatedNames[i], UrlXp, "dedicated", None)]

\* stored excerpts: none, empty, whitespace alone, with a newline, with a run
\* of spaces and capitals, with a space at the end, absent from every page,
\* inside a word, and three of more than PrefixLen characters
Excerpts ==
    << None,
       <<>>,
       <<" ", "\n">>,
       <<"a", "\n", "b">>,
       <<"A", " ", " ", "B">>,
       <<"c", " ">>,
       <<"c", "a">>,
       <<"t", "a">>,
       Repeat("a", PrefixLen) \o <<"b">>,
       Repeat("a", PrefixLen) \o <<"T">>,
       <<"t">> \o Repeat("a", PrefixLen) >>

ExcerptDoc == [i \in 1 .. Len(Excerpts) |-> Source(NameAb, UrlXp, "excerpt", Excerpts[i])]

RelevanceDocs == {SectionDoc, DedicatedDoc, ExcerptDoc}

\* a start tag that carries an anchor in attribute attr
AnchorTag(attr, value) == [type |-> "start", tag |-> "h2", attrs |-> << <<attr, value>> >>]

\* character data
TextData(data) == [type |-> "data", data |-> data]

\* the pages: an anchor (or none) and text
RelevanceBodies ==
    { << AnchorTag("id", <<"s">>), TextData(<<"S", "t", "a", "b">>) >>,
      << AnchorTag("name", <<"S">>), TextData(<<"a">>), TextData(<<"b">>) >>,
      << AnchorTag("id", <<"a", "_", "b">>),
         TextData(<<"t", "a", "b", "s", "\n", "S", "T", "A", "B">>) >>,
      << AnchorTag("id", <<"a", "-", "b">>),
         TextData(<<" ", "a", " ", "\n", "\n", " ", "b", " ">>) >>,
      << AnchorTag("name", <<"A", "_", "b">>), TextData(Repeat("a", PrefixLen) \o <<"t">>) >>,
      << TextData(<<"c">>) >>,
      << TextData(<<"T", "a", "b", "s", " ", "b", "a", "t", "s">>) >> }

\* the responses to the GET: a page, an empty page, and the failures
RelevanceResponses(url) ==
    {OkResponse(200, url, b) : b \in RelevanceBodies \cup {<<>>}}
        \cup {HttpError(404), UrlError}

InitRelevance ==
    /\ RateInit
    /\ \E doc \in RelevanceDocs : PipeInit([ag1 |-> doc, ag2 |-> <<>>], EmptyStore)

RelevanceFetch ==
    /\ InLoopBody
    /\ BaseUrl(CurSrc.url) \notin DOMAIN run.cache
    /\ \E resp \in RelevanceResponses(BaseUrl(CurSrc.url)) : PassSourceFetch(resp)

NextRelevance ==
    \/ /\ invocations = 0
       /\ VerifyStart(<<"ag1">>, <<"relevance">>)
    \/ RelevanceFetch
    \/ PassStep

SpecRelevance == InitRelevance /\ [][NextRelevance]_vars

\* the records of the agent being verified, while its loop runs
Checked == IF mpc = "pass" /\ run.ai = 1 THEN 1 .. Len(run.agent_results) ELSE {}

\* the source of the k-th record, and the page it was checked against
SourceOf(k) == caps[CurAgent][k]

PageFor(k) == run.cache[BaseUrl(SourceOf(k).url)]

\* the part of a URL after its first '#', empty when there is none
FragmentText(url) ==
    IF \E i \in 1 .. Len(url) : url[i] = "#"
    THEN LET h == CHOOSE i \in 1 .. Len(url) : url[i] = "#" /\ \A k \in 1 .. (i - 1) : url[k] /= "#"
             rest == SubSeq(url, h + 1, Len(url))
         IN IF \E i \in 1 .. Len(rest) : rest[i] = "#"
            THEN SubSeq(rest, 1, (CHOOSE i \in 1 .. Len(rest) :
                                      rest[i] = "#" /\ \A k \in 1 .. (i - 1) : rest[k] /= "#") - 1)
            ELSE rest
    ELSE <<>>

\* C13: a section source whose URL has no fragment (no '#', or nothing after
\* the '#') is never relevant, whatever text and anchors the fetched page has.
C13_NoFragmentNeverRelevant ==
    \A k \in Checked :
        (SourceOf(k).sourceGranularity = "section" /\ FragmentText(SourceOf(k).url) = <<>>)
            => ~run.agent_results[k].relevant

\* both kinds of URL without a fragment, checked against a reachable page
\* that has an anchor
C13_Witness ==
    /\ \E k \in Checked : ~HasHash(SourceOf(k).url) /\ SourceOf(k).sourceGranularity = "section"
    /\ \E k \in Checked :
           /\ HasHash(SourceOf(k).url)
           /\ FragmentText(SourceOf(k).url) = <<>>
           /\ SourceOf(k).sourceGranularity = "section"
           /\ PageFor(k).reachable
           /\ PageFor(k).anchors /= {}
           /\ "no_fragment" \in DOMAIN run.agent_results[k].checks

\* C14: for a reachable page and a section source with fragment f, relevant
\* is true exactly when f equals some anchor of the page, or equals some
\* anchor when both are lower-cased, or f with every hyphen replaced by an
\* underscore equals some anchor.
C14_SectionIffAnchorMatches ==
    \A k \in Checked :
        LET f == FragmentText(SourceOf(k).url)
        IN (SourceOf(k).sourceGranularity = "section" /\ f /= <<>> /\ PageFor(k).reachable)
               => (run.agent_results[k].relevant
                       <=> \E anchor \in PageFor(k).anchors :
                               \/ f = anchor
                               \/ Lower(f) = Lower(anchor)
                               \/ [i \in 1 .. Len(f) |-> IF f[i] = "-" THEN "_" ELSE f[i]] = anchor)

\* on one page: a fragment that matches only with its hyphen replaced, and a
\* fragment that matches in none of the three ways
C14_Witness ==
    /\ \E k \in Checked :
           /\ SourceOf(k).sourceGranularity = "section"
           /\ PageFor(k).reachable
           /\ FragmentText(SourceOf(k).url) = <<"a", "-", "b">>
           /\ PageFor(k).anchors = {<<"a", "_", "b">>}
           /\ run.agent_results[k].relevant
    /\ \E k \in Checked :
           /\ SourceOf(k).sourceGranularity = "section"
           /\ FragmentText(SourceOf(k).url) = <<"A", "-", "b">>
           /\ ~run.agent_results[k].relevant

\* a fragment that matches an anchor only when both are lower-cased
SectionLowerCaseMatch ==
    \E k \in Checked :
        /\ SourceOf(k).sourceGranularity = "section"
        /\ PageFor(k).reachable
        /\ FragmentText(SourceOf(k).url) = <<"s">>
        /\ PageFor(k).anchors = {<<"S">>}
        /\ run.agent_results[k].relevant

\* the whitespace-separated words of the lower-cased name that are longer
\* than 3 characters
NameWords(name) == SelectSeq(SplitWs(Lower(name)), LAMBDA w : Len(w) > 3)

\* C15: for a reachable page, a dedicated source is relevant exactly when the
\* lower-cased capability name is a substring of the lower-cased page text,
\* or at least half of the name's significant words each occur as a
\* substring of the page text (of no significant words, half are found).
C15_DedicatedIffNameOrHalfWords ==
    \A k \in Checked :
        LET name == SourceOf(k).capability
            text == Lower(PageFor(k).text)
            found == {i \in 1 .. Len(NameWords(name)) : IsSubstring(NameWords(name)[i], text)}
        IN (SourceOf(k).sourceGranularity = "dedicated" /\ PageFor(k).reachable)
               => (run.agent_results[k].relevant
                       <=> \/ IsSubstring(Lower(name), text)
                           \/ 2 * Cardinality(found) >= Len(NameWords(name)))

\* on one page: a name found whole, a name relevant by exactly half of its
\* words, and a name with one word of three found, which is not relevant
C15_Witness ==
    /\ \E k \in Checked :
           /\ SourceOf(k).sourceGranularity = "dedicated"
           /\ PageFor(k).reachable
           /\ run.agent_results[k].checks.name_found
    /\ \E k \in Checked :
           /\ SourceOf(k).sourceGranularity = "dedicated"
           /\ PageFor(k).reachable
           /\ Len(NameWords(SourceOf(k).capability)) = 2
           /\ ~run.agent_results[k].checks.name_found
           /\ run.agent_results[k].checks.keyword_ratio = 50
           /\ run.agent_results[k].relevant
    /\ \E k \in Checked :
           /\ SourceOf(k).sourceGranularity = "dedicated"
           /\ PageFor(k).reachable
           /\ Len(NameWords(SourceOf(k).capability)) = 3
           /\ run.agent_results[k].checks.keyword_ratio = 33
           /\ ~run.agent_results[k].relevant

RECURSIVE CollapseRuns(_, _)
\* s with every run of whitespace replaced by one space; inRun tells that
\* the character before was whitespace
CollapseRuns(s, inRun) ==
    IF s = <<>> THEN <<>>
    ELSE IF Head(s) \in Whitespace
    THEN (IF inRun THEN <<>> ELSE <<" ">>) \o CollapseRuns(Tail(s), TRUE)
    ELSE <<Head(s)>> \o CollapseRuns(Tail(s), FALSE)

\* s without the space at its start and at its end, if any
Trimmed(s) ==
    LET from == IF s /= <<>> /\ s[1] = " " THEN 2 ELSE 1
        to == IF s /= <<>> /\ s[Len(s)] = " " THEN Len(s) - 1 ELSE Len(s)
    IN SubSeq(s, from, to)

\* C16: for a reachable page, an excerpt source whose stored excerpt (one is
\* stored: it is not empty) equals a contiguous substring of the page text
\* after both are lower-cased and have every run of whitespace collapsed to
\* one space is relevant, even when the whitespace inside the stored excerpt
\* differs from the page's.
C16_CollapsedExcerptRelevant ==
    \A k \in Checked :
        (/\ SourceOf(k).sourceGranularity = "excerpt"
         /\ PageFor(k).reachable
         /\ Truthy(SourceOf(k).excerpt)
         /\ IsSubstring(CollapseRuns(Lower(SourceOf(k).excerpt), FALSE),
                        CollapseRuns(Lower(PageFor(k).text), FALSE)))
            => run.agent_results[k].relevant

\* an excerpt with a newline where the page has a run of spaces and
\* newlines: it is not a substring of the page text as extracted, and is
\* relevant
C16_Witness ==
    \E k \in Checked :
        /\ SourceOf(k).sourceGranularity = "excerpt"
        /\ PageFor(k).reachable
        /\ SourceOf(k).excerpt = <<"a", "\n", "b">>
        /\ ~IsSubstring(Lower(SourceOf(k).excerpt), PageFor(k).text)
        /\ ~IsSubstring(<<"a", " ", "b">>, PageFor(k).text)
        /\ run.agent_results[k].relevant
        /\ run.agent_results[k].checks.exact_match

\* C17: for a reachable page, an excerpt source whose normalized excerpt
\* (lower-cased, every run of whitespace collapsed to one space, no
\* whitespace at either end) is not a substring of the normalized page text,
\* and whose first 50 normalized characters are not a substring either, gets
\* relevant = false with exact_match = false and prefix_match = false; an
\* excerpt source is relevant only if exact_match or prefix_match is true.
C17_ExcerptAbsentNotRelevant ==
    \A k \in Checked :
        LET rec == run.agent_results[k]
            excerpt == Trimmed(CollapseRuns(Lower(ExcerptOf(SourceOf(k))), FALSE))
            text == Trimmed(CollapseRuns(Lower(PageFor(k).text), FALSE))
        IN (SourceOf(k).sourceGranularity = "excerpt" /\ PageFor(k).reachable)
               => /\ (~IsSubstring(excerpt, text)
                          /\ ~IsSubstring(IF Len(excerpt) > 50 THEN SubSeq(excerpt, 1, 50)
                                           ELSE excerpt, text))
                         => /\ ~rec.relevant
                            /\ DOMAIN rec.checks = {"exact_match", "prefix_match"}
                            /\ ~rec.checks.exact_match
                            /\ ~rec.checks.prefix_match
                  /\ rec.relevant
                         => /\ DOMAIN rec.checks = {"exact_match", "prefix_match"}
                            /\ (rec.checks.exact_match \/ rec.checks.prefix_match)

\* on one page: an excerpt of which neither the whole nor the first 50
\* characters are found, although its first character is, and an excerpt of
\* 51 characters found by its first 50 only
C17_Witness ==
    /\ \E k \in Checked :
           /\ SourceOf(k).sourceGranularity = "excerpt"
           /\ PageFor(k).reachable
           /\ Len(SourceOf(k).excerpt) > 50
           /\ IsSubstring(SubSeq(SourceOf(k).excerpt, 1, 1), PageFor(k).text)
           /\ ~run.agent_results[k].checks.exact_match
           /\ ~run.agent_results[k].checks.prefix_match
           /\ ~run.agent_results[k].relevant
    /\ \E k \in Checked :
           /\ SourceOf(k).sourceGranularity = "excerpt"
           /\ PageFor(k).reachable
           /\ Len(SourceOf(k).excerpt) > 50
           /\ ~run.agent_results[k].checks.exact_match
           /\ run.agent_results[k].checks.prefix_match
           /\ run.agent_results[k].relevant

\* C20: each run of a pass fully replaces the stored result of every agent it
\* processes: once saved, the document of (agent, pass) holds exactly the
\* records this run produced, dated by this run, and after the run one
\* record per current source in the order of the sources; no record of an
\* earlier run survives.
C20_RunReplacesDocument ==
    /\ (mpc = "save") =>
           \A j \in 1 .. Len(run.results) :
               j < run.ai =>
                   store[run.results[j].agent][CurPass] =
                       [state |-> "ok", generated_at |-> cmd.date, pass |-> CurPass,
                        results |-> run.results[j].results]
    /\ (cmd.name = "verify" /\ mpc = "idle" /\ exit_status = "0") =>
           \A a \in Processed : \A i \in 1 .. Len(cmd.passes) :
               LET doc == store[a][cmd.passes[i]]
               IN /\ doc.state = "ok"
                  /\ doc.generated_at = cmd.date
                  /\ Len(doc.results) = Len(caps[a])
                  /\ \A k \in 1 .. Len(caps[a]) :
                         /\ doc.results[k].url = caps[a][k].url
                         /\ doc.results[k].capability = caps[a][k].capability

\* a second run, after a repair changed a cited URL: the document of the
\* first run had a record of the URL that is cited no more, and the new
\* document has none
C20_Witness ==
    /\ cmd.name = "verify"
    /\ mpc = "idle"
    /\ exit_status = "0"
    /\ \E a \in Processed :
           /\ store0[a]["reachability"].state = "ok"
           /\ store[a]["reachability"] /= store0[a]["reachability"]
           /\ \E k \in 1 .. Len(store0[a]["reachability"].results) :
                  /\ \A i \in 1 .. Len(caps[a]) :
                         caps[a][i].url /= store0[a]["reachability"].results[k].url
                  /\ \A i \in 1 .. Len(store[a]["reachability"].results) :
                         store[a]["reachability"].results[i].url
                             /= store0[a]["reachability"].results[k].url

(***************************************************************************)
(* fetch_url on its own: calls made one after the other, each with its     *)
(* rate limiting, for any URL, method and answer of the network.           *)
(***************************************************************************)
\* the URLs fetched: two with a host, the empty one and one without scheme
FetchUrls == {UrlXp, UrlYp, <<>>, <<"p">>}

\* the answers of the network: the page, with and without body, the page of
\* another URL after a redirect, two HTTP error statuses, a transport failure
FetchResponses(url) ==
    {OkResponse(200, url, PageBody), OkResponse(200, url, <<>>),
     OkResponse(200, UrlXq, PageBody), HttpError(404), HttpError(500), UrlError}

\* the time at which rate_limit, called at time t with nothing else running,
\* records the request for domain d
DispatchTime(d, t) ==
    IF WaitFor(t, DictGet(last_request_time, d, 0)) > 0
    THEN t + WaitFor(t, DictGet(last_request_time, d, 0))
    ELSE t

\* one call fetch_url(url, method): rate_limit, then Request(), which may
\* raise, then urlopen inside the try block; out keeps the call and how it ended
FetchCall(url, method, resp) ==
    /\ mpc = "idle"
    /\ \A c \in Callers : pc[c] = "idle"
    /\ Len(dispatched) < MaxFetches
    /\ DispatchTime(get_domain(url), clock) <= MaxTime
    /\ clock' = DispatchTime(get_domain(url), clock)
    /\ last_request_time' = DictPut(last_request_time, get_domain(url),
                                    DispatchTime(get_domain(url), clock))
    /\ dispatched' = Append(dispatched, [domain |-> get_domain(url),
                                         time |-> DispatchTime(get_domain(url), clock),
                                         caller |-> 1])
    /\ out' = [url |-> url, method |-> method, resp |-> resp,
               raised |-> FetchRaises(url),
               result |-> IF FetchRaises(url) THEN None ELSE fetch_url(url, method, resp)]
    /\ UNCHANGED <<pc, domain, now, last, wake, caps, store, today, mpc, run, exit_status,
                   invocations, cmd, prev_cmd, caps0, store0, completed>>

NextFetch ==
    \/ Tick
    \/ \E url \in FetchUrls, method \in {"GET", "HEAD"} :
           \E resp \in FetchResponses(url) : FetchCall(url, method, resp)

SpecFetch == InitRate /\ [][NextFetch]_vars

\* a call of fetch_url has been made
FetchCalled == Len(dispatched) > 0

\* the outcome of the last call as the value it returned: status 0 and an
\* error for a transport failure, the status and an error for an HTTP error
\* status, and for a success the status, the final URL, whether it differs
\* from the requested one, the body for GET only, and no error
OutcomeAsValue ==
    /\ out.resp.kind = "url_error" =>
           (out.result.status = 0 /\ Truthy(out.result.error))
    /\ out.resp.kind = "http_error" =>
           (out.result.status = out.resp.status /\ Truthy(out.result.error))
    /\ out.resp.kind = "ok" =>
           /\ out.result.status = out.resp.status
           /\ out.result.url = out.resp.final
           /\ out.result.redirected = (out.resp.final /= out.url)
           /\ out.result.body = (IF out.method = "GET" THEN out.resp.body ELSE <<>>)
           /\ out.result.error = None

\* every call that returns reports its outcome as that value
ReturnedOutcomeAsValue == (FetchCalled /\ ~out.raised) => OutcomeAsValue

\* C21: fetch_url never raises to its caller and reports every outcome as a
\* value: status 0 and a non-empty error on transport failure, the status
\* code and a non-empty error on an HTTP error status, and on success the
\* status, the final URL, redirected = (final URL differs from the requested
\* one), the body only for GET, and error = none.
C21_FetchNeverRaises == FetchCalled => (~out.raised /\ OutcomeAsValue)

\* C22: an invocation that runs the reachability and/or relevance passes and
\* is not interrupted ends with exit status 0, whatever the capability
\* records and the network outcomes are.
C22_VerifyExitsZero == VerifyEnded => exit_status = "0"

\* the base URLs the last report listed for agent a
Listed(a) == IF a \in DOMAIN out THEN {out[a][i].url : i \in 1 .. Len(out[a])} ELSE {}

\* the number of lines the last report printed for agent a
ListedCount(a) == IF a \in DOMAIN out THEN Len(out[a]) ELSE 0

\* the records of agent a's persisted reachability results that are not
\* reachable and carry an error
BrokenRecords(a) ==
    {i \in 1 .. Len(store[a]["reachability"].results) :
        /\ ~store[a]["reachability"].results[i].reachable
        /\ Truthy(store[a]["reachability"].results[i].error)}

\* C23: for each agent with persisted reachability results, the report lists
\* exactly the base URLs (fragment stripped) of the records that are not
\* reachable and carry a non-empty error, each distinct base URL once,
\* however many capabilities cite it; nothing else is listed.
C23_ReportListsBrokenOnce ==
    (cmd.name = "report" /\ exit_status = "0") =>
        \A a \in Range(cmd.agents) :
            (a \in DOMAIN store /\ store[a]["reachability"].state = "ok") =>
                /\ Listed(a) = {BaseUrl(store[a]["reachability"].results[i].url) :
                                    i \in BrokenRecords(a)}
                /\ ListedCount(a) = Cardinality(Listed(a))

\* a report over one agent with two broken records of the same page, listed
\* once, and another agent whose only record is reachable and is not listed
C23_Witness ==
    /\ cmd.name = "report"
    /\ exit_status = "0"
    /\ \E a \in Range(cmd.agents) :
           /\ store[a]["reachability"].state = "ok"
           /\ Cardinality(BrokenRecords(a)) = 2
           /\ ListedCount(a) = 1
    /\ \E a \in Range(cmd.agents) :
           /\ store[a]["reachability"].state = "ok"
           /\ store[a]["reachability"].results /= <<>>
           /\ BrokenRecords(a) = {}
           /\ ListedCount(a) = 0

\* the calls of fetch_url the running pass has made for agent a and base URL u
RequestsFor(a, u) ==
    {i \in 1 .. Len(run.requests) : run.requests[i].agent = a /\ run.requests[i].url = u}

\* C24: within one run of a pass for one agent, each distinct base URL is
\* fetched at most once, by HEAD in the reachability pass and by GET in the
\* relevance pass, however many sources cite it, and every source citing it
\* gets its record from that single fetch; a base URL cited under two agents
\* is fetched once per agent.
C24_OneFetchPerBaseUrl ==
    (mpc = "pass") =>
        /\ \A i \in 1 .. Len(run.requests) :
               /\ Cardinality(RequestsFor(run.requests[i].agent, run.requests[i].url)) = 1
               /\ run.requests[i].method = (IF CurPass = "reachability" THEN "HEAD" ELSE "GET")
        /\ (run.ai <= Len(run.agents)) =>
               \A k \in 1 .. Len(run.agent_results) :
                   LET src == caps[CurAgent][k]
                   IN /\ Cardinality(RequestsFor(CurAgent, BaseUrl(src.url))) = 1
                      /\ run.agent_results[k] =
                             PassRecord(CurPass, src,
                                        CacheEntry(CurPass, run.fetched[BaseUrl(src.url)]))

\* a relevance pass in which two sources of the first agent cited one page,
\* fetched once, and the second agent cites the same page, fetched once more
C24_Witness ==
    /\ mpc = "pass"
    /\ CurPass = "relevance"
    /\ \E r \in Range(run.results) :
           /\ Len(r.results) = 2
           /\ BaseUrl(r.results[1].url) = BaseUrl(r.results[2].url)
           /\ \E i \in 1 .. Len(run.requests), j \in 1 .. Len(run.requests) :
                  /\ run.requests[i].agent = r.agent
                  /\ run.requests[j].agent /= r.agent
                  /\ run.requests[i].url = BaseUrl(r.results[1].url)
                  /\ run.requests[j].url = run.requests[i].url
                  /\ run.requests[j].method = "GET"

\* the persisted reachability records from which the last invocation built
\* the redirect map of agent a
RecordsOf(a) == store0[a]["reachability"].results

\* the key under which the claim files a redirected record: the full cited
\* URL if it has a fragment, else the URL without '#' and what follows
ClaimedKey(r) == IF FragmentText(r.url) /= <<>> THEN r.url ELSE BaseUrl(r.url)

\* the value the claim files for it: the destination, with the fragment of
\* the cited URL appended if there is one and the destination has none
ClaimedValue(r) ==
    IF FragmentText(r.url) /= <<>> /\ ~(\E i \in 1 .. Len(r.redirect_url) : r.redirect_url[i] = "#")
    THEN r.redirect_url \o <<"#">> \o FragmentText(r.url)
    ELSE r.redirect_url

\* C25: the redirect map has, for each persisted reachability record with
\* redirected = true, the full cited URL as key and the redirect destination
\* with the original fragment appended as value if the cited URL has a
\* fragment (a destination with a fragment of its own is used unchanged),
\* and the base URL as key and the redirect destination as value if it has
\* none; records with redirected = false contribute no entry.
C25_RedirectMapConstruction ==
    (cmd.name = "fix_redirects" /\ exit_status = "0") =>
        \A a \in Range(cmd.agents) :
            (a \in DOMAIN store0 /\ store0[a]["reachability"].state = "ok") =>
                /\ DOMAIN MapOf(a) =
                       {ClaimedKey(RecordsOf(a)[i]) :
                            i \in {k \in 1 .. Len(RecordsOf(a)) : RecordsOf(a)[k].redirected}}
                /\ \A i \in 1 .. Len(RecordsOf(a)) :
                       RecordsOf(a)[i].redirected =>
                           MapOf(a)[ClaimedKey(RecordsOf(a)[i])] = ClaimedValue(RecordsOf(a)[i])

\* a repair that read a record of a URL with a fragment redirected to a URL
\* without one, next to a record that was not redirected, and rewrote the
\* source to the destination with the fragment appended
C25_Witness ==
    /\ RepairRan
    /\ \E a \in Processed :
           /\ \E i \in 1 .. Len(RecordsOf(a)) :
                  /\ RecordsOf(a)[i].redirected
                  /\ FragmentText(RecordsOf(a)[i].url) /= <<>>
                  /\ ~HasHash(RecordsOf(a)[i].redirect_url)
                  /\ \E k \in 1 .. Len(out[a]) :
                         /\ out[a][k].old_url = RecordsOf(a)[i].url
                         /\ out[a][k].new_url =
                                RecordsOf(a)[i].redirect_url \o <<"#">>
                                    \o FragmentText(RecordsOf(a)[i].url)
           /\ \E i \in 1 .. Len(RecordsOf(a)) : ~RecordsOf(a)[i].redirected

\* a repair that read a record of a URL with a fragment redirected to a URL
\* with a fragment of its own
OwnFragmentKept ==
    /\ RepairRan
    /\ \E a \in Processed : \E i \in 1 .. Len(RecordsOf(a)) :
           /\ RecordsOf(a)[i].redirected
           /\ FragmentText(RecordsOf(a)[i].url) = <<"s">>
           /\ FragmentText(RecordsOf(a)[i].redirect_url) = <<"t">>
           /\ MapOf(a)[RecordsOf(a)[i].url] = RecordsOf(a)[i].redirect_url

\* C26: redirect repair never drops a fragment: whatever the persisted
\* reachability results and the capability records are, records edited after
\* the reachability run included, every source whose URL had a non-empty
\* fragment before fix_redirects has a URL with a fragment afterwards.
C26_RepairKeepsFragment ==
    RepairRan =>
        \A a \in DOMAIN caps : \A i \in 1 .. Len(caps0[a]) :
            FragmentText(caps0[a][i].url) /= <<>> => FragmentText(caps[a][i].url) /= <<>>

\* a reachability record that says redirected says reachable and no error,
\* and has a redirect_url exactly if it says redirected
RedirectedMeansFetched(rec) ==
    /\ rec.redirected => (rec.reachable /\ rec.error = None)
    /\ (rec.redirect_url /= None) <=> rec.redirected

\* C27: in every reachability record, of the running pass and of the result
\* store, redirected = true implies reachable = true and error none, and
\* redirect_url is non-null exactly when redirected is true; so every change
\* redirect repair makes or reports rests on a record of a fetch that
\* succeeded.
C27_RedirectedImpliesReachable ==
    /\ (mpc = "pass" /\ CurPass = "reachability") =>
           \A k \in 1 .. Len(run.agent_results) : RedirectedMeansFetched(run.agent_results[k])
    /\ \A a \in DOMAIN store :
           \A k \in 1 .. Len(store[a]["reachability"].results) :
               RedirectedMeansFetched(store[a]["reachability"].results[k])
    /\ (cmd.name = "fix_redirects" /\ exit_status = "0") =>
           \A a \in DOMAIN out : \A k \in 1 .. Len(out[a]) :
               \E i \in 1 .. Len(RecordsOf(a)) :
                   /\ RecordsOf(a)[i].redirected
                   /\ RecordsOf(a)[i].reachable
                   /\ RecordsOf(a)[i].error = None
                   /\ RecordsOf(a)[i].status_code >= 200
                   /\ RecordsOf(a)[i].status_code < 400
                   /\ BaseUrl(RecordsOf(a)[i].url) = BaseUrl(out[a][k].old_url)
                   /\ BaseUrl(out[a][k].new_url) = BaseUrl(RecordsOf(a)[i].redirect_url)

\* a repair over results that hold a redirected record and a record of an
\* HTTP error: the source of the first is rewritten, the source of the
\* second is as it was
C27_Witness ==
    /\ RepairRan
    /\ \E a \in Processed :
           /\ Len(RecordsOf(a)) = Len(caps0[a])
           /\ \E i \in 1 .. Len(RecordsOf(a)) :
                  /\ RecordsOf(a)[i].redirected
                  /\ RecordsOf(a)[i].url = caps0[a][i].url
                  /\ caps[a][i].url /= caps0[a][i].url
           /\ \E i \in 1 .. Len(RecordsOf(a)) :
                  /\ ~RecordsOf(a)[i].reachable
                  /\ Truthy(RecordsOf(a)[i].error)
                  /\ RecordsOf(a)[i].redirect_url = None
                  /\ RecordsOf(a)[i].url = caps0[a][i].url
                  /\ caps[a][i] = caps0[a][i]

\* C28: the fix applier is single-step, not transitive: within one apply_fixes
\* invocation each source is matched once against the URL it had before the
\* invocation, so with the mapping {A: B, B: C} a source with URL A ends with
\* URL B, a source with URL B ends with URL C, and a source whose URL is no
\* key keeps its URL, whatever B maps to.
C28_FixesSingleStep ==
    FixesApplied =>
        \A a \in Processed : \A i \in 1 .. Len(caps0[a]) :
            caps[a][i].url =
                (IF MapsTo(cmd.raw_fixes, caps0[a][i].url)
                 THEN cmd.raw_fixes[caps0[a][i].url].url
                 ELSE caps0[a][i].url)

\* a second invocation with the same mapping {A: B, B: C} changes a record
\* again: the source the invocation before rewrote (from A) to B is now
\* rewritten to C
C28_Witness ==
    /\ FixesApplied
    /\ prev_cmd.name = "apply_fixes"
    /\ ~prev_cmd.dry_run
    /\ \E a \in Processed : \E i \in 1 .. Len(caps0[a]) :
           /\ caps0[a][i].verifiedDate = cmd.date - 1
           /\ \E k \in DOMAIN cmd.raw_fixes :
                  /\ MapsTo(cmd.raw_fixes, k)
                  /\ k /= caps0[a][i].url
                  /\ cmd.raw_fixes[k].url = caps0[a][i].url
           /\ MapsTo(cmd.raw_fixes, caps0[a][i].url)
           /\ caps[a][i].url = cmd.raw_fixes[caps0[a][i].url].url
           /\ caps[a][i].url /= caps0[a][i].url

\* C29: in the excerpt check, exact_match = true implies prefix_match = true
\* (the first 50 characters of a matched excerpt are a substring of the page
\* too), so an excerpt source is relevant exactly when prefix_match is true.
C29_ExactImpliesPrefix ==
    \A k \in Checked :
        LET rec == run.agent_results[k]
            prefix_match == IF "prefix_match" \in DOMAIN rec.checks
                            THEN rec.checks.prefix_match ELSE FALSE
            exact_match == IF "exact_match" \in DOMAIN rec.checks
                           THEN rec.checks.exact_match ELSE FALSE
        IN SourceOf(k).sourceGranularity = "excerpt" =>
               /\ exact_match => prefix_match
               /\ rec.relevant <=> prefix_match

\* on one page: an excerpt of 51 characters found whole, and so by its first
\* 50, and an excerpt of 51 characters found by its first 50 only
C29_Witness ==
    /\ \E k \in Checked :
           /\ SourceOf(k).sourceGranularity = "excerpt"
           /\ PageFor(k).reachable
           /\ Len(SourceOf(k).excerpt) > 50
           /\ run.agent_results[k].checks.exact_match
           /\ run.agent_results[k].checks.prefix_match
           /\ run.agent_results[k].relevant
    /\ \E k \in Checked :
           /\ SourceOf(k).sourceGranularity = "excerpt"
           /\ PageFor(k).reachable
           /\ Len(SourceOf(k).excerpt) > 50
           /\ ~run.agent_results[k].checks.exact_match
           /\ run.agent_results[k].checks.prefix_match
           /\ run.agent_results[k].relevant

\* C30: a dedicated source is relevant only if the page has topical overlap
\* with the capability name: when neither the full name nor any significant
\* word of the name occurs in the page text, relevant = false, also for a
\* name that has no significant word at all.
C30_NoOverlapNotRelevant ==
    \A k \in Checked :
        LET name == SourceOf(k).capability
            text == Lower(PageFor(k).text)
        IN (/\ SourceOf(k).sourceGranularity = "dedicated"
            /\ ~IsSubstring(Lower(name), text)
            /\ \A i \in 1 .. Len(NameWords(name)) : ~IsSubstring(NameWords(name)[i], text))
               => ~run.agent_results[k].relevant

\* the same for the names that have a significant word
OverlapNeededWithWords ==
    \A k \in Checked :
        LET name == SourceOf(k).capability
            text == Lower(PageFor(k).text)
        IN (/\ SourceOf(k).sourceGranularity = "dedicated"
            /\ NameWords(name) /= <<>>
            /\ ~IsSubstring(Lower(name), text)
            /\ \A i \in 1 .. Len(NameWords(name)) : ~IsSubstring(NameWords(name)[i], text))
               => ~run.agent_results[k].relevant

====
